---- MODULE Spec2Model ----
(***************************************************************************)
(* Verification model of the omfietser-etl scrapers (AH, Jumbo, Kruidvat,  *)
(* Plus, Aldi) and of their job APIs.                                      *)
(*                                                                         *)
(* Conventions: a product is a record [id, code]; 0 stands for an absent   *)
(* (None / empty) value.  A file is a record [st, data] with st one of     *)
(* "missing", "corrupt" (does not parse as JSON) and "ok".                 *)
(***************************************************************************)
EXTENDS Integers, Sequences, FiniteSets, TLC

\* ------------------------------------------------------------------ bounds
MaxId == 2              \* product ids a source returns: 1..MaxId
MaxCode == 1            \* Kruidvat product codes: 1..MaxCode
MaxBatch == 2           \* longest batch passed to one persist call
MaxProducts == 3        \* largest max_products a job is created with
MaxRuns == 3            \* process starts of one scraper (the run and its resumes)

VARIABLES
    st_kind,        \* which scraper's persist function owns the store file
    st_file,        \* the product store file (output_file / products_file)
    st_filtered     \* duplicates filtered by the last persist call (its log line)

storeVars == <<st_kind, st_file, st_filtered>>

VARIABLES
    api,                \* which job API service this is: "ah", "jumbo" or "aldi"
    jobs,               \* scraper_jobs (Aldi: active_jobs and completed_jobs)
    task,               \* position of each job's background run_scraper_subprocess
    proc,               \* each job's scraper subprocess
    active_processes,   \* active_processes (AH, Jumbo)
    cancel_pc,          \* position of a cancel_job handler that is under way
    sent                \* webhook notifications attempted so far

jobVars == <<api, jobs, task, proc, active_processes, cancel_pc, sent>>

VARIABLES
    jumbo,              \* the Jumbo scraper process: its position and attributes
    jumbo_disk          \* its products file, progress file and completion flag

jumboVars == <<jumbo, jumbo_disk>>

VARIABLES
    ah,                 \* the AH scraper process: its position and attributes
    ah_disk             \* its output file, progress file and completion flag

ahVars == <<ah, ah_disk>>

VARIABLES
    plus,               \* the Plus scraper process: attributes and main coroutine
    plus_tasks,         \* its category harvester tasks
    plus_disk           \* its products file, progress file and completion flag

plusVars == <<plus, plus_tasks, plus_disk>>

VARIABLES
    aldi,               \* the Aldi scraper process: attributes and main coroutine
    aldi_tasks,         \* its category harvester tasks
    aldi_disk           \* its products file, progress file and completion flag

aldiVars == <<aldi, aldi_tasks, aldi_disk>>

VARIABLES
    req                 \* one call of a scraper's request function

reqVars == <<req>>

VARIABLES
    kruidvat,           \* the Kruidvat scraper process: attributes and position
    kruidvat_disk       \* its products file, progress file and completion flag

kruidvatVars == <<kruidvat, kruidvat_disk>>

VARIABLES
    http                \* one read request to a job API and its response

httpVars == <<http>>

VARIABLES
    discovery           \* one category discovery of a scraper run and its outcome

discoveryVars == <<discovery>>

VARIABLES
    tuning              \* the adaptive attributes of a Jumbo run: batch size, delay

tuningVars == <<tuning>>

VARIABLES
    wrapper,            \* the Jumbo scraper object built by the wrapper for one job
    wrapper_disk        \* the flag, progress and products files, by path

wrapperVars == <<wrapper, wrapper_disk>>

vars == <<storeVars, jobVars, jumboVars, ahVars, plusVars, aldiVars, reqVars, kruidvatVars, httpVars, discoveryVars, tuningVars, wrapperVars>>

\* What each subsystem leaves alone: the variables of the others.
notStore == <<jobVars, jumboVars, ahVars, plusVars, aldiVars, reqVars, kruidvatVars, httpVars, discoveryVars, tuningVars, wrapperVars>>
notJobs == <<storeVars, jumboVars, ahVars, plusVars, aldiVars, reqVars, kruidvatVars, httpVars, discoveryVars, tuningVars, wrapperVars>>
notJumbo == <<storeVars, jobVars, ahVars, plusVars, aldiVars, reqVars, kruidvatVars, httpVars, discoveryVars, tuningVars, wrapperVars>>
notAH == <<storeVars, jobVars, jumboVars, plusVars, aldiVars, reqVars, kruidvatVars, httpVars, discoveryVars, tuningVars, wrapperVars>>
notPlus == <<storeVars, jobVars, jumboVars, ahVars, aldiVars, reqVars, kruidvatVars, httpVars, discoveryVars, tuningVars, wrapperVars>>
notAldi == <<storeVars, jobVars, jumboVars, ahVars, plusVars, reqVars, kruidvatVars, httpVars, discoveryVars, tuningVars, wrapperVars>>
notReq == <<storeVars, jobVars, jumboVars, ahVars, plusVars, aldiVars, kruidvatVars, httpVars, discoveryVars, tuningVars, wrapperVars>>
notKruidvat == <<storeVars, jobVars, jumboVars, ahVars, plusVars, aldiVars, reqVars, httpVars, discoveryVars, tuningVars, wrapperVars>>
notHttp == <<storeVars, jobVars, jumboVars, ahVars, plusVars, aldiVars, reqVars, kruidvatVars, discoveryVars, tuningVars, wrapperVars>>
notDiscovery == <<storeVars, jobVars, jumboVars, ahVars, plusVars, aldiVars, reqVars, kruidvatVars, httpVars, tuningVars, wrapperVars>>
notTuning == <<storeVars, jobVars, jumboVars, ahVars, plusVars, aldiVars, reqVars, kruidvatVars, httpVars, discoveryVars, wrapperVars>>
notWrapper == <<storeVars, jobVars, jumboVars, ahVars, plusVars, aldiVars, reqVars, kruidvatVars, httpVars, discoveryVars, tuningVars>>

\* ------------------------------------------------------------------ files
MissingFile == [st |-> "missing", data |-> <<>>]
CorruptFile == [st |-> "corrupt", data |-> <<>>]
OkFile(d) == [st |-> "ok", data |-> d]

\* os.path.exists + json.load inside try/except JSONDecodeError: a missing
\* or corrupt file is read as the empty list.
LoadExisting(file) == IF file.st = "ok" THEN file.data ELSE <<>>

\* ------------------------------------------------------- products and ids
Scrapers == {"ah", "jumbo", "kruidvat", "plus", "aldi"}

\* The products a source can return; only Kruidvat products carry a code.
Products(kind) ==
    [id : 0..MaxId, code : IF kind = "kruidvat" THEN 0..MaxCode ELSE {0}]

\* The key each persist function deduplicates on: AH webshopId, Jumbo
\* product.id, Plus PLP_Str.SKU, Aldi articleId, Kruidvat "id or code".
ExternalId(kind, p) ==
    IF kind = "kruidvat" THEN (IF p.id # 0 THEN p.id ELSE p.code) ELSE p.id

IdsOf(kind, products) ==
    {ExternalId(kind, products[i]) : i \in DOMAIN products} \ {0}

\* Mutant of DedupNew: the id of an accepted product is not added to
\* existing_ids.
RECURSIVE DedupNew_NoAdd(_, _, _)
DedupNew_NoAdd(kind, existing_ids, products) ==
    IF products = <<>> THEN <<>>
    ELSE LET p == Head(products)
             id == ExternalId(kind, p)
         IN  IF id # 0 /\ id \notin existing_ids
             THEN <<p>> \o DedupNew_NoAdd(kind, existing_ids, Tail(products))
             ELSE DedupNew_NoAdd(kind, existing_ids, Tail(products))

\* The loop "for product in products: if id and id not in existing_ids:
\* new_products.append(product); existing_ids.add(id)".
RECURSIVE DedupNew(_, _, _)
DedupNew(kind, existing_ids, products) ==
    IF products = <<>> THEN <<>>
    ELSE LET p == Head(products)
             id == ExternalId(kind, p)
         IN  IF id # 0 /\ id \notin existing_ids
             THEN <<p>> \o DedupNew(kind, existing_ids \cup {id}, Tail(products))
             ELSE DedupNew(kind, existing_ids, Tail(products))

\* The read-modify-write persist operation shared by the five scrapers:
\* early return on an empty batch, load, deduplicate, extend, rewrite.
PersistMerge(kind, file, products) ==
    IF products = <<>> THEN file
    ELSE LET existing == LoadExisting(file)
         IN  OkFile(existing \o DedupNew(kind, IdsOf(kind, existing), products))

\* Mutant of Plus_save_products: the file is rewritten from the batch alone,
\* as if the products persisted by the other harvesters had not been loaded.
Plus_save_products_StaleLoad(file, products) ==
    IF products = <<>> THEN file ELSE OkFile(DedupNew("plus", {}, products))

AH_write_products(file, products) == PersistMerge("ah", file, products)
Jumbo_save_products(file, products) == PersistMerge("jumbo", file, products)
Kruidvat_save_data(file, products) == PersistMerge("kruidvat", file, products)
Plus_save_products(file, products) == PersistMerge("plus", file, products)
Aldi_save_products(file, products) == PersistMerge("aldi", file, products)

Persist(kind, file, products) ==
    CASE kind = "ah" -> AH_write_products(file, products)
      [] kind = "jumbo" -> Jumbo_save_products(file, products)
      [] kind = "kruidvat" -> Kruidvat_save_data(file, products)
      [] kind = "plus" -> Plus_save_products(file, products)
      [] kind = "aldi" -> Aldi_save_products(file, products)

\* ------------------------------------------------- the product store alone
\* Any sequence of persist calls on one store file, with any batches (a
\* resumed run only changes which batches are passed), and with process
\* crashes that interrupt the rewrite of the file.
Batches(kind) ==
    UNION {[1..n -> Products(kind)] : n \in 0..MaxBatch}

StoreOff ==
    /\ st_kind = "none"
    /\ st_file = MissingFile
    /\ st_filtered = 0

StoreInit ==
    /\ st_kind \in Scrapers
    /\ st_file = MissingFile
    /\ st_filtered = 0

StorePersist ==
    \E batch \in Batches(st_kind) :
        /\ st_file' = Persist(st_kind, st_file, batch)
        /\ st_filtered' =
               Len(batch) - (Len(LoadExisting(st_file')) - Len(LoadExisting(st_file)))
        /\ UNCHANGED <<notStore, st_kind>>

\* The process dies inside "with open(file, 'w'): json.dump(...)": the file
\* was truncated by open and holds a prefix of the dump.
StoreCrashInWrite ==
    /\ st_file' = CorruptFile
    /\ st_filtered' = 0
    /\ UNCHANGED <<notStore, st_kind>>

StoreNext == StorePersist \/ StoreCrashInWrite

\* ================================================================ job APIs
\* ah-scraper/scraper_api.py, jumbo-scraper/scraper_api.py and
\* aldi-scraper/scraper_api.py.  In the AH and Jumbo services
\* run_scraper_subprocess is a plain function, so the framework runs it in a
\* worker thread, concurrently with the request handlers; in the Aldi service
\* it is a coroutine that never awaits, so it runs to its end on the event
\* loop before any other handler runs.
MaxJobs == 3                \* jobs created in one service lifetime
\* int(os.getenv("MAX_CONCURRENT_JOBS", "3")): set by the environment; the
\* model runs the service with a cap below MaxJobs.
MAX_CONCURRENT_JOBS == 2

Jobs == 1..MaxJobs

NoJob == [status |-> "none", error |-> "", webhook |-> FALSE]
NoProc == [st |-> "none", rc |-> 0, report |-> "none"]

\* How a scraper run can end by itself.
Reports == {"completed", "no_categories", "exception"}

\* The exit code of the scraper process for each way its run can end.
\* AH: scrape() reports "No categories found" and returns, so the process
\* exits 0; an exception is re-raised out of asyncio.run.  Jumbo: run() never
\* consults the category tiles it fetched; an empty tile list is followed by
\* the BBQ harvest and a normal exit; the wrapper turns any exception into
\* sys.exit(1).  Aldi: an empty category list raises.
ScraperExitCode(a, report) ==
    CASE report = "completed" -> 0
      [] report = "exception" -> 1
      [] report = "no_categories" -> IF a = "aldi" THEN 1 ELSE 0

\* Exit codes of a scraper that received SIGTERM from cancel_job: the AH and
\* Jumbo scrapers install a handler that only sets shutdown_requested and
\* then end their run normally (0); before the handler is installed, or when
\* the grace period ends with kill(), the process dies by the signal.
TerminatedExitCodes == {0, -15}

ActiveCount == Cardinality({j \in Jobs : jobs[j].status \in {"queued", "running"}})
get_running_job_count == Cardinality({j \in Jobs : jobs[j].status = "running"})
can_accept_new_job == get_running_job_count < MAX_CONCURRENT_JOBS

\* No request handler is in the middle of its run on the event loop.
LoopIdle == \A j \in Jobs : cancel_pc[j] = "idle"

JobsOff ==
    /\ api = "none"
    /\ jobs = [j \in Jobs |-> NoJob]
    /\ task = [j \in Jobs |-> "none"]
    /\ proc = [j \in Jobs |-> NoProc]
    /\ active_processes = {}
    /\ cancel_pc = [j \in Jobs |-> "idle"]
    /\ sent = {}

JobsInit ==
    /\ api \in {"ah", "jumbo", "aldi"}
    /\ jobs = [j \in Jobs |-> NoJob]
    /\ task = [j \in Jobs |-> "none"]
    /\ proc = [j \in Jobs |-> NoProc]
    /\ active_processes = {}
    /\ cancel_pc = [j \in Jobs |-> "idle"]
    /\ sent = {}

\* The job record a CreateJob request registers, and its background task.
RegisterJob(j, webhook) ==
    /\ jobs[j].status = "none"
    /\ \A k \in Jobs : k < j => jobs[k].status # "none"
    /\ jobs' = [jobs EXCEPT ![j] = [status |-> "queued", error |-> "", webhook |-> webhook]]
    /\ task' = [task EXCEPT ![j] = "pending"]
    /\ UNCHANGED <<notJobs, api, proc, active_processes, cancel_pc, sent>>

\* POST /scrape of the AH service: queued and running jobs count.
AH_start_scraping ==
    /\ api = "ah"
    /\ LoopIdle
    /\ ActiveCount < MAX_CONCURRENT_JOBS
    /\ \E j \in Jobs, webhook \in BOOLEAN : RegisterJob(j, webhook)

\* POST /scrape of the Jumbo service: only running jobs count.
Jumbo_start_scraping_job ==
    /\ api = "jumbo"
    /\ LoopIdle
    /\ can_accept_new_job
    /\ \E j \in Jobs, webhook \in BOOLEAN : RegisterJob(j, webhook)

\* POST /scrape of the Aldi service: no admission check.
Aldi_start_scraping ==
    /\ api = "aldi"
    /\ \E j \in Jobs, webhook \in BOOLEAN : RegisterJob(j, webhook)

\* run_scraper_subprocess (AH, Jumbo), first step: the job record is updated
\* to "running" whatever its status is.
Run_mark(j) ==
    /\ api \in {"ah", "jumbo"}
    /\ task[j] = "pending"
    /\ jobs' = [jobs EXCEPT ![j].status = "running"]
    /\ task' = [task EXCEPT ![j] = "marked"]
    /\ UNCHANGED <<notJobs, api, proc, active_processes, cancel_pc, sent>>

\* subprocess.Popen and active_processes[job_id] = process.
Run_spawn(j) ==
    /\ task[j] = "marked"
    /\ proc' = [proc EXCEPT ![j] = [st |-> "alive", rc |-> 0, report |-> "none"]]
    /\ active_processes' = active_processes \cup {j}
    /\ task' = [task EXCEPT ![j] = "spawned"]
    /\ UNCHANGED <<notJobs, api, jobs, cancel_pc, sent>>

\* The scraper process ends by itself.
Proc_exit(j) ==
    /\ proc[j].st = "alive"
    /\ \E r \in Reports :
          proc' = [proc EXCEPT ![j] =
                      [st |-> "exited", rc |-> ScraperExitCode(api, r), report |-> r]]
    /\ UNCHANGED <<notJobs, api, jobs, task, active_processes, cancel_pc, sent>>

\* process.wait() has returned (the process is reaped): the status update by
\* return code.
Run_reap(j) ==
    /\ task[j] = "spawned"
    /\ proc[j].st = "exited"
    /\ proc' = [proc EXCEPT ![j] = NoProc]
    /\ IF proc[j].rc = 0
       THEN /\ jobs' = [jobs EXCEPT ![j].status = "completed"]
            /\ task' = [task EXCEPT ![j] =
                           IF jobs[j].webhook THEN "notify" ELSE "cleanup"]
       ELSE /\ jobs' = [jobs EXCEPT ![j].status = "failed",
                                    ![j].error = "Process failed with return code"]
            /\ task' = [task EXCEPT ![j] = "cleanup"]
    /\ UNCHANGED <<notJobs, api, active_processes, cancel_pc, sent>>

\* The webhook step after a zero return code.  AH: requests.post inside
\* try/except, every failure is logged.  Jumbo: asyncio.create_task is called
\* in the worker thread, which has no running event loop, and raises
\* RuntimeError; the handler of run_scraper_subprocess marks the job failed.
Run_notify(j) ==
    /\ task[j] = "notify"
    /\ task' = [task EXCEPT ![j] = "cleanup"]
    /\ IF api = "ah"
       THEN /\ \E delivered \in BOOLEAN :
                  sent' = sent \cup {[job |-> j, status |-> "completed",
                                     delivered |-> delivered]}
            /\ UNCHANGED jobs
       ELSE /\ jobs' = [jobs EXCEPT ![j].status = "failed",
                                    ![j].error = "no running event loop"]
            /\ UNCHANGED sent
    /\ UNCHANGED <<notJobs, api, proc, active_processes, cancel_pc>>

\* Mutant of Run_cleanup: the background task returns without deleting the
\* job from active_processes.
Run_cleanup_Keep(j) ==
    /\ task[j] = "cleanup"
    /\ task' = [task EXCEPT ![j] = "done"]
    /\ UNCHANGED <<notJobs, api, jobs, proc, active_processes, cancel_pc, sent>>

\* finally: the job leaves active_processes.
Run_cleanup(j) ==
    /\ task[j] = "cleanup"
    /\ active_processes' = active_processes \ {j}
    /\ task' = [task EXCEPT ![j] = "done"]
    /\ UNCHANGED <<notJobs, api, jobs, proc, cancel_pc, sent>>

\* DELETE /jobs/{job_id} (AH, Jumbo), up to the status update: the status
\* check, then terminate / wait / kill of a registered process.  The AH
\* handler also deletes the job from active_processes.
Cancel_terminate(j) ==
    /\ api \in {"ah", "jumbo"}
    /\ LoopIdle
    /\ jobs[j].status \in {"queued", "running"}
    /\ IF j \in active_processes
       THEN /\ IF proc[j].st = "alive"
               THEN \E rc \in TerminatedExitCodes :
                       proc' = [proc EXCEPT ![j] =
                                   [st |-> "exited", rc |-> rc, report |-> "terminated"]]
               ELSE UNCHANGED proc
            /\ active_processes' =
                   IF api = "ah" THEN active_processes \ {j} ELSE active_processes
       ELSE UNCHANGED <<proc, active_processes>>
    /\ cancel_pc' = [cancel_pc EXCEPT ![j] = "update"]
    /\ UNCHANGED <<notJobs, api, jobs, task, sent>>

\* cancel_job, the status update.
Cancel_update(j) ==
    /\ cancel_pc[j] = "update"
    /\ jobs' = [jobs EXCEPT ![j].status = "cancelled",
                            ![j].error = "Job cancelled by user"]
    /\ cancel_pc' = [cancel_pc EXCEPT ![j] = "idle"]
    /\ UNCHANGED <<notJobs, api, task, proc, active_processes, sent>>

\* run_scraper_subprocess of the Aldi service, start to end.
Aldi_run_scraper_subprocess(j) ==
    /\ api = "aldi"
    /\ task[j] = "pending"
    /\ \E r \in Reports, delivered \in BOOLEAN :
          LET rc == ScraperExitCode(api, r)
              in_active == jobs[j].status \in {"queued", "running"}
              status == IF ~in_active THEN jobs[j].status
                        ELSE IF rc = 0 THEN "completed" ELSE "failed"
              error == IF in_active /\ rc # 0 THEN "stderr" ELSE jobs[j].error
              in_completed == status \notin {"queued", "running"}
          IN  /\ jobs' = [jobs EXCEPT ![j].status = status, ![j].error = error]
              /\ sent' = IF rc = 0 /\ in_completed /\ jobs[j].webhook
                         THEN sent \cup {[job |-> j, status |-> "completed",
                                          delivered |-> delivered]}
                         ELSE sent
    /\ task' = [task EXCEPT ![j] = "done"]
    /\ UNCHANGED <<notJobs, api, proc, active_processes, cancel_pc>>

\* DELETE /jobs/{job_id} of the Aldi service.
Aldi_cancel_job(j) ==
    /\ api = "aldi"
    /\ jobs[j].status \in {"queued", "running"}
    /\ jobs' = [jobs EXCEPT ![j].status = "cancelled"]
    /\ UNCHANGED <<notJobs, api, task, proc, active_processes, cancel_pc, sent>>

JobsNext ==
    \/ AH_start_scraping
    \/ Jumbo_start_scraping_job
    \/ Aldi_start_scraping
    \/ \E j \in Jobs : Run_mark(j)
    \/ \E j \in Jobs : Run_spawn(j)
    \/ \E j \in Jobs : Proc_exit(j)
    \/ \E j \in Jobs : Run_reap(j)
    \/ \E j \in Jobs : Run_notify(j)
    \/ \E j \in Jobs : Run_cleanup(j)
    \/ \E j \in Jobs : Cancel_terminate(j)
    \/ \E j \in Jobs : Cancel_update(j)
    \/ \E j \in Jobs : Aldi_run_scraper_subprocess(j)
    \/ \E j \in Jobs : Aldi_cancel_job(j)

\* ===================================================== shared by scrapers
\* Python's None for an optional integer, and the truth value of
\* "if self.max_products": None and 0 are both false.
None == -1
Truthy(x) == x # None /\ x # 0

Min(a, b) == IF a <= b THEN a ELSE b

\* The source catalogue of one category: n products with ids first+1 ..
\* first+n, and the page of at most limit products after skipping offset.
Catalog(first, n) == [i \in 1..n |-> [id |-> first + i, code |-> 0]]
Page(catalog, offset, limit) ==
    SubSeq(catalog, offset + 1, Min(offset + limit, Len(catalog)))

\* What a process killed inside "with open(path, 'w')" leaves behind when
\* the kill tears the write: a file that exists and does not parse.
NoProgress == [st |-> "missing"]
CorruptProgress == [st |-> "corrupt"]

\* ================================================================== Jumbo
\* jumbo-scraper/jumbo_scraper.py, run on its own paths.
OPTIMAL_BATCH_SIZE == 2     \* page size; 100 in the source, scaled down
JumboProgressEvery == 4     \* "offset % 500 == 0" scaled to two pages
JumboCatalogSize == 6       \* products of the BBQ category
JumboMaxEmptyPages == 5     \* max_empty_pages

JumboCatalog == Catalog(0, JumboCatalogSize)

\* The attributes __init__ sets before it looks at the disk.
JumboFresh(max_products, run) ==
    [pc |-> "start", run |-> run, rc |-> 0,
     max_products |-> max_products,
     shutdown_requested |-> FALSE,
     scraping_completed |-> FALSE,
     scraped_products |-> {},
     total_scraped |-> 0,
     current_offset |-> 0,
     offset |-> 0,
     consecutive_empty_pages |-> 0,
     page_len |-> 0,
     last_request |-> None,
     failing |-> FALSE]

JumboOff ==
    /\ jumbo = [pc |-> "off"]
    /\ jumbo_disk = [pc |-> "off"]

JumboInit ==
    /\ \E m \in {None} \cup (0..MaxProducts) : jumbo = JumboFresh(m, 1)
    /\ jumbo_disk = [products_file |-> MissingFile,
                     progress_file |-> NoProgress,
                     completed_flag |-> "missing"]

JumboAlive == jumbo.pc \notin {"start", "dead", "exited"}

\* load_existing_data: total_scraped is the length of the products file.
Jumbo_load_existing_data(m) ==
    IF jumbo_disk.products_file.st = "ok"
    THEN [m EXCEPT !.total_scraped = Len(jumbo_disk.products_file.data)]
    ELSE IF jumbo_disk.products_file.st = "corrupt"
         THEN [m EXCEPT !.total_scraped = 0]
         ELSE m

\* load_progress: the checkpoint's id set, counter and offset.
Jumbo_load_progress(m) ==
    LET f == jumbo_disk.progress_file
    IN  IF f.st = "ok"
        THEN [m EXCEPT !.scraped_products = f.scraped_products,
                       !.total_scraped = f.total_scraped,
                       !.current_offset = f.current_offset]
        ELSE IF f.st = "corrupt" THEN [m EXCEPT !.current_offset = 0]
        ELSE m

\* save_progress(current_offset): the checkpoint written from attributes m.
Jumbo_save_progress(m) ==
    [st |-> "ok",
     scraped_products |-> m.scraped_products,
     total_scraped |-> m.total_scraped,
     current_offset |-> m.current_offset]

\* __init__: signal handlers, then the completion flag decides between
\* load_existing_data and load_progress.
Jumbo_init ==
    /\ jumbo.pc = "start"
    /\ LET completed == jumbo_disk.completed_flag # "missing"
           m == [jumbo EXCEPT !.pc = "run", !.scraping_completed = completed]
       IN  jumbo' = IF completed THEN Jumbo_load_existing_data(m)
                    ELSE Jumbo_load_progress(m)
    /\ UNCHANGED <<notJumbo, jumbo_disk>>

\* signal_handler.
Jumbo_signal_handler ==
    /\ JumboAlive
    /\ ~jumbo.shutdown_requested
    /\ jumbo' = [jumbo EXCEPT !.shutdown_requested = TRUE]
    /\ UNCHANGED <<notJumbo, jumbo_disk>>

\* run() up to the category loop: the short-circuit on a completed run, and
\* the category request, whose result is used only to decide success.
Jumbo_run ==
    /\ jumbo.pc = "run"
    /\ IF jumbo.scraping_completed
       THEN jumbo' = [jumbo EXCEPT !.pc = "exited", !.rc = 0]
       ELSE \E success \in BOOLEAN :
               jumbo' = IF success
                        THEN [jumbo EXCEPT !.pc = "enter"]
                        ELSE [jumbo EXCEPT !.pc = "finally", !.failing = TRUE]
    /\ UNCHANGED <<notJumbo, jumbo_disk>>

\* scrape_category, entry: the local cursor and counters.
Jumbo_scrape_category_enter ==
    /\ jumbo.pc = "enter"
    /\ jumbo' = [jumbo EXCEPT !.pc = "loop", !.offset = 0,
                              !.consecutive_empty_pages = 0]
    /\ UNCHANGED <<notJumbo, jumbo_disk>>

JumboLoopCondition ==
    /\ ~jumbo.shutdown_requested
    /\ jumbo.consecutive_empty_pages < JumboMaxEmptyPages

\* One iteration of the page loop up to the checkpoint: the request at the
\* local offset, the filter against scraped_products, save_products, the
\* counters and the limit check.  size: the source may answer with a page
\* shorter than the batch size it was asked for.
Jumbo_scrape_category_page ==
    /\ jumbo.pc = "loop"
    /\ JumboLoopCondition
    /\ \E success \in BOOLEAN, size \in 1..OPTIMAL_BATCH_SIZE :
          LET products == IF success
                          THEN Page(JumboCatalog, jumbo.offset, size)
                          ELSE <<>>
              new_products == DedupNew("jumbo", jumbo.scraped_products, products)
              total == jumbo.total_scraped + Len(new_products)
              m == [jumbo EXCEPT !.last_request = jumbo.offset,
                                 !.page_len = Len(products)]
          IN  IF products = <<>>
              THEN /\ jumbo' = [m EXCEPT
                          !.consecutive_empty_pages = @ + 1,
                          !.offset = @ + OPTIMAL_BATCH_SIZE]
                   /\ UNCHANGED jumbo_disk
              ELSE /\ jumbo_disk' = [jumbo_disk EXCEPT !.products_file =
                          Jumbo_save_products(@, new_products)]
                   /\ LET n == [m EXCEPT
                                  !.consecutive_empty_pages = 0,
                                  !.scraped_products = @ \cup IdsOf("jumbo", products),
                                  !.total_scraped = total]
                      IN  jumbo' =
                            IF Truthy(jumbo.max_products) /\ total >= jumbo.max_products
                            THEN [n EXCEPT !.pc = "final"]
                            ELSE IF jumbo.offset % JumboProgressEvery = 0
                            THEN [n EXCEPT !.pc = "ckpt"]
                            ELSE [n EXCEPT !.offset = @ + Len(products)]
    /\ UNCHANGED notJumbo

\* The rest of the iteration: save_progress(offset), then the cursor moves
\* by the number of products the page held.
Jumbo_scrape_category_checkpoint ==
    /\ jumbo.pc = "ckpt"
    /\ LET m == [jumbo EXCEPT !.current_offset = jumbo.offset]
       IN  /\ jumbo_disk' = [jumbo_disk EXCEPT !.progress_file = Jumbo_save_progress(m)]
           /\ jumbo' = [m EXCEPT !.pc = "loop", !.offset = @ + jumbo.page_len]
    /\ UNCHANGED notJumbo

\* The loop condition fails: shutdown requested, or too many empty pages.
Jumbo_scrape_category_stop ==
    /\ jumbo.pc = "loop"
    /\ ~JumboLoopCondition
    /\ jumbo' = [jumbo EXCEPT !.pc = "final"]
    /\ UNCHANGED <<notJumbo, jumbo_disk>>

\* After the loop: the final save_progress(offset).
Jumbo_scrape_category_final ==
    /\ jumbo.pc = "final"
    /\ LET m == [jumbo EXCEPT !.current_offset = jumbo.offset]
       IN  /\ jumbo_disk' = [jumbo_disk EXCEPT !.progress_file = Jumbo_save_progress(m)]
           /\ jumbo' = [m EXCEPT !.pc = "flag"]
    /\ UNCHANGED notJumbo

\* run(), after scrape_category returned: the completion flag is written.
Jumbo_run_mark_completion ==
    /\ jumbo.pc = "flag"
    /\ jumbo_disk' = [jumbo_disk EXCEPT !.completed_flag = "ok"]
    /\ jumbo' = [jumbo EXCEPT !.pc = "finally"]
    /\ UNCHANGED notJumbo

\* run(), finally: save_progress(); a raised exception ends the process
\* with exit code 1.
Jumbo_run_finally ==
    /\ jumbo.pc = "finally"
    /\ jumbo_disk' = [jumbo_disk EXCEPT !.progress_file = Jumbo_save_progress(jumbo)]
    /\ jumbo' = [jumbo EXCEPT !.pc = "exited",
                              !.rc = IF jumbo.failing THEN 1 ELSE 0]
    /\ UNCHANGED notJumbo

\* The file the step at pc is about to rewrite.
JumboWrites(pc) ==
    CASE pc \in {"ckpt", "final", "finally"} -> "progress_file"
      [] pc = "flag" -> "completed_flag"
      [] pc = "loop" ->
            IF JumboLoopCondition
               /\ DedupNew("jumbo", jumbo.scraped_products,
                           Page(JumboCatalog, jumbo.offset, OPTIMAL_BATCH_SIZE)) # <<>>
            THEN "products_file" ELSE "none"
      [] OTHER -> "none"

\* The process is killed (SIGKILL, power loss); a kill inside a rewrite may
\* leave the file truncated.
Jumbo_kill ==
    /\ JumboAlive
    /\ jumbo' = [jumbo EXCEPT !.pc = "dead"]
    /\ \E torn \in BOOLEAN :
          LET w == IF torn THEN JumboWrites(jumbo.pc) ELSE "none"
          IN  jumbo_disk' =
                CASE w = "progress_file" ->
                        [jumbo_disk EXCEPT !.progress_file = CorruptProgress]
                  [] w = "completed_flag" ->
                        [jumbo_disk EXCEPT !.completed_flag = "corrupt"]
                  [] w = "products_file" ->
                        [jumbo_disk EXCEPT !.products_file = CorruptFile]
                  [] OTHER -> jumbo_disk
    /\ UNCHANGED notJumbo

\* The same job is started again on the same disk.
Jumbo_restart ==
    /\ jumbo.pc \in {"dead", "exited"}
    /\ jumbo.run < MaxRuns
    /\ jumbo' = JumboFresh(jumbo.max_products, jumbo.run + 1)
    /\ UNCHANGED <<notJumbo, jumbo_disk>>

JumboNext ==
    \/ Jumbo_init
    \/ Jumbo_signal_handler
    \/ Jumbo_run
    \/ Jumbo_scrape_category_enter
    \/ Jumbo_scrape_category_page
    \/ Jumbo_scrape_category_checkpoint
    \/ Jumbo_scrape_category_stop
    \/ Jumbo_scrape_category_final
    \/ Jumbo_run_mark_completion
    \/ Jumbo_run_finally
    \/ Jumbo_kill
    \/ Jumbo_restart

\* ===================================================================== AH
\* ah-scraper/ah_scraper.py, started with a job configuration file.
AHPageSize == 2             \* page_size; 750 in the source, scaled down
AHCategorySize == 3         \* products of each category

\* Two categories in the order the API lists them; they share one product.
AHCategories == <<"c1", "c2">>
AHCatalog(c) ==
    IF c = "c1" THEN Catalog(0, AHCategorySize)
    ELSE Catalog(AHCategorySize - 1, AHCategorySize)
AHAllIds == IdsOf("ah", AHCatalog("c1")) \cup IdsOf("ah", AHCatalog("c2"))

AHFresh(max_products_limit, run, env_failed) ==
    [pc |-> "start", run |-> run, rc |-> 0,
     max_products_limit |-> max_products_limit,
     shutdown_requested |-> FALSE,
     scraping_completed |-> FALSE,
     scraped_product_ids |-> {},
     scraped_categories |-> {},
     total_scraped_items |-> 0,
     categories |-> <<>>,
     i |-> 1,
     page |-> 0,
     category_products |-> <<>>,
     env_failed |-> env_failed,
     left |-> "none",
     warned |-> FALSE]

AHOff ==
    /\ ah = [pc |-> "off"]
    /\ ah_disk = [pc |-> "off"]

AHInit ==
    /\ \E m \in {None} \cup (0..MaxProducts) : ah = AHFresh(m, 1, FALSE)
    /\ ah_disk = [output_file |-> MissingFile,
                  progress_file |-> NoProgress,
                  completed_flag |-> "missing"]

AHAlive == ah.pc \notin {"start", "dead", "exited"}

\* A load_progress that does not catch the JSONDecodeError of a progress
\* file that does not parse: the exception ends the process.
AH_load_progress_NoCatch(m) ==
    LET f == ah_disk.progress_file
    IN  CASE f.st = "ok" ->
                [m EXCEPT !.scraped_product_ids = f.scraped_product_ids,
                          !.scraped_categories = f.scraped_categories,
                          !.total_scraped_items = f.total_scraped_items]
          [] f.st = "corrupt" -> [m EXCEPT !.pc = "exited", !.rc = 1]
          [] OTHER -> m

\* load_progress; warned: whether the last load of a file logged a warning.
AH_load_progress(m) ==
    LET f == ah_disk.progress_file
    IN  CASE f.st = "ok" ->
                [m EXCEPT !.scraped_product_ids = f.scraped_product_ids,
                          !.scraped_categories = f.scraped_categories,
                          !.total_scraped_items = f.total_scraped_items,
                          !.warned = FALSE]
          [] f.st = "corrupt" -> [m EXCEPT !.warned = TRUE]
          [] OTHER -> [m EXCEPT !.warned = FALSE]

\* save_progress: the checkpoint written from attributes m.
AH_save_progress(m) ==
    [st |-> "ok",
     scraped_product_ids |-> m.scraped_product_ids,
     scraped_categories |-> m.scraped_categories,
     total_scraped_items |-> m.total_scraped_items]

\* __init__: with the completion flag present the counter is the length of
\* the output file; without it the progress file is loaded.
AH_init ==
    /\ ah.pc = "start"
    /\ LET completed == ah_disk.completed_flag # "missing"
           m == [ah EXCEPT !.pc = "scrape", !.scraping_completed = completed]
       IN  ah' = IF ~completed THEN AH_load_progress(m)
                 ELSE IF ah_disk.output_file.st = "ok"
                 THEN [m EXCEPT !.total_scraped_items = Len(ah_disk.output_file.data)]
                 ELSE m
    /\ UNCHANGED <<notAH, ah_disk>>

\* signal_handler.
AH_signal_handler ==
    /\ AHAlive
    /\ ~ah.shutdown_requested
    /\ ah' = [ah EXCEPT !.shutdown_requested = TRUE]
    /\ UNCHANGED <<notAH, ah_disk>>

\* scrape() up to scrape_complete_catalog: the short-circuit on a completed
\* run, authenticate, fetch_all_categories.  A failed authentication and an
\* empty category list both end in a plain return.
AH_scrape ==
    /\ ah.pc = "scrape"
    /\ IF ah.scraping_completed
       THEN ah' = [ah EXCEPT !.pc = "exited", !.rc = 0]
       ELSE \E authenticated \in BOOLEAN, data \in {<<>>, AHCategories} :
               ah' = IF authenticated /\ data # <<>>
                     THEN [ah EXCEPT !.pc = "for", !.categories = data, !.i = 1]
                     ELSE [ah EXCEPT !.pc = "exited", !.rc = 0, !.env_failed = TRUE]
    /\ UNCHANGED <<notAH, ah_disk>>

AHLimitReached(m) ==
    Truthy(m.max_products_limit) /\ m.total_scraped_items >= m.max_products_limit

\* scrape_complete_catalog, the head of one iteration of the category loop:
\* end of the list, shutdown, limit, skip of a scraped category.
AH_scrape_complete_catalog_for ==
    /\ ah.pc = "for"
    /\ ah' = IF ah.i > Len(ah.categories) \/ ah.shutdown_requested \/ AHLimitReached(ah)
             THEN [ah EXCEPT !.pc = "save"]
             ELSE IF ah.categories[ah.i] \in ah.scraped_categories
             THEN [ah EXCEPT !.i = @ + 1]
             ELSE [ah EXCEPT !.pc = "while", !.page = 0, !.category_products = <<>>,
                             !.left = "none"]
    /\ UNCHANGED <<notAH, ah_disk>>

\* The loop over one page: a product that is new is recorded and counted,
\* and the loop stops at the product that reaches the limit.
RECURSIVE AH_collect(_, _)
AH_collect(m, products) ==
    IF products = <<>> THEN m
    ELSE LET product_id == ExternalId("ah", Head(products))
         IN  IF product_id # 0 /\ product_id \notin m.scraped_product_ids
             THEN LET n == [m EXCEPT
                              !.scraped_product_ids = @ \cup {product_id},
                              !.category_products = Append(@, Head(products)),
                              !.total_scraped_items = @ + 1]
                  IN  IF AHLimitReached(n) THEN n ELSE AH_collect(n, Tail(products))
             ELSE AH_collect(m, Tail(products))

\* scrape_category_products, one iteration of the page loop.  left: how the
\* loop was left (the while condition, the limit check, the except branch,
\* or the short page).
AH_scrape_category_products ==
    /\ ah.pc = "while"
    /\ IF ah.shutdown_requested \/ AHLimitReached(ah)
       THEN ah' = [ah EXCEPT !.pc = "write",
                             !.left = IF ah.shutdown_requested
                                      THEN "shutdown" ELSE "limit"]
       ELSE \E success \in BOOLEAN :
               LET products ==
                       IF success
                       THEN Page(AHCatalog(ah.categories[ah.i]),
                                 ah.page * AHPageSize, AHPageSize)
                       ELSE <<>>
                   m == AH_collect(ah, products)
               IN  ah' = IF ~success
                         THEN [ah EXCEPT !.pc = "write", !.env_failed = TRUE,
                                         !.left = "error"]
                         ELSE IF Len(products) < AHPageSize
                         THEN [m EXCEPT !.pc = "write", !.left = "exhausted"]
                         ELSE [m EXCEPT !.page = @ + 1]
    /\ UNCHANGED <<notAH, ah_disk>>

\* scrape_complete_catalog, after scrape_category_products returned:
\* write_products of what the category yielded.
AH_scrape_complete_catalog_write ==
    /\ ah.pc = "write"
    /\ ah_disk' = [ah_disk EXCEPT !.output_file =
                      AH_write_products(@, ah.category_products)]
    /\ ah' = [ah EXCEPT !.pc = "mark",
                        !.warned = IF ah.category_products = <<>> THEN @
                                   ELSE ah_disk.output_file.st = "corrupt"]
    /\ UNCHANGED notAH

\* scrape_complete_catalog: the category is marked completed and the
\* progress saved.
AH_scrape_complete_catalog_mark ==
    /\ ah.pc = "mark"
    /\ LET m == [ah EXCEPT !.scraped_categories = @ \cup {ah.categories[ah.i]}]
       IN  /\ ah_disk' = [ah_disk EXCEPT !.progress_file = AH_save_progress(m)]
           /\ ah' = [m EXCEPT !.pc = "for", !.i = @ + 1]
    /\ UNCHANGED notAH

\* scrape(), after scrape_complete_catalog returned: save_progress.
AH_scrape_save_progress ==
    /\ ah.pc = "save"
    /\ ah_disk' = [ah_disk EXCEPT !.progress_file = AH_save_progress(ah)]
    /\ ah' = [ah EXCEPT !.pc = "flag"]
    /\ UNCHANGED notAH

\* scrape(): the completion flag is written.
AH_scrape_mark_completion ==
    /\ ah.pc = "flag"
    /\ ah_disk' = [ah_disk EXCEPT !.completed_flag = "ok"]
    /\ ah' = [ah EXCEPT !.pc = "exited", !.rc = 0]
    /\ UNCHANGED notAH

\* The file the step at pc is about to rewrite.
AHWrites(pc) ==
    CASE pc \in {"mark", "save"} -> "progress_file"
      [] pc = "flag" -> "completed_flag"
      [] pc = "write" -> IF ah.category_products # <<>> THEN "output_file" ELSE "none"
      [] OTHER -> "none"

\* The process is killed; a kill inside a rewrite may leave the file
\* truncated.
AH_kill ==
    /\ AHAlive
    /\ ah' = [ah EXCEPT !.pc = "dead"]
    /\ \E torn \in BOOLEAN :
          LET w == IF torn THEN AHWrites(ah.pc) ELSE "none"
          IN  ah_disk' =
                CASE w = "progress_file" ->
                        [ah_disk EXCEPT !.progress_file = CorruptProgress]
                  [] w = "completed_flag" ->
                        [ah_disk EXCEPT !.completed_flag = "corrupt"]
                  [] w = "output_file" ->
                        [ah_disk EXCEPT !.output_file = CorruptFile]
                  [] OTHER -> ah_disk
    /\ UNCHANGED notAH

\* The same job is started again on the same disk.
AH_restart ==
    /\ ah.pc \in {"dead", "exited"}
    /\ ah.run < MaxRuns
    /\ ah' = AHFresh(ah.max_products_limit, ah.run + 1, ah.env_failed)
    /\ UNCHANGED <<notAH, ah_disk>>

AHNext ==
    \/ AH_init
    \/ AH_signal_handler
    \/ AH_scrape
    \/ AH_scrape_complete_catalog_for
    \/ AH_scrape_category_products
    \/ AH_scrape_complete_catalog_write
    \/ AH_scrape_complete_catalog_mark
    \/ AH_scrape_save_progress
    \/ AH_scrape_mark_completion
    \/ AH_kill
    \/ AH_restart

\* =================================================================== Plus
\* plus-scraper/plus_scraper.py, started with a job configuration file.  The
\* harvester tasks run on one event loop: a task runs alone from one await
\* to the next.
PlusPageSize == 2           \* OPTIMAL_PAGE_SIZE; 100 in the source, scaled down
PlusCategorySize == 4       \* products of each category
PlusMaxEmptyPages == 3      \* max_empty_pages

\* Two categories with disjoint products.
PlusCategories == {"c1", "c2"}
PlusCatalog(c) ==
    IF c = "c1" THEN Catalog(0, PlusCategorySize)
    ELSE Catalog(PlusCategorySize, PlusCategorySize)
PlusTotalPages == (PlusCategorySize + PlusPageSize - 1) \div PlusPageSize

NoTask == [pc |-> "none", current_page |-> 1, consecutive_empty_pages |-> 0,
           has_more |-> FALSE]

PlusFresh(max_products_limit, run, env_failed) ==
    [pc |-> "start", run |-> run, rc |-> 0,
     max_products_limit |-> max_products_limit,
     shutdown_requested |-> FALSE,
     scraping_completed |-> FALSE,
     scraped_products |-> {},
     total_scraped |-> 0,
     category_progress |-> [c \in PlusCategories |-> None],
     completed_categories |-> {},
     failing |-> FALSE,
     env_failed |-> env_failed]

PlusOff ==
    /\ plus = [pc |-> "off"]
    /\ plus_tasks = [pc |-> "off"]
    /\ plus_disk = [pc |-> "off"]

PlusInit ==
    /\ \E m \in {None} \cup (0..MaxProducts) : plus = PlusFresh(m, 1, FALSE)
    /\ plus_tasks = [c \in PlusCategories |-> NoTask]
    /\ plus_disk = [products_file |-> MissingFile,
                    progress_file |-> NoProgress,
                    completed_flag |-> "missing"]

PlusAlive == plus.pc \notin {"start", "dead", "exited"}

PlusLimitReached(m) ==
    Truthy(m.max_products_limit) /\ m.total_scraped >= m.max_products_limit

\* load_progress.
Plus_load_progress(m) ==
    LET f == plus_disk.progress_file
    IN  IF f.st = "ok"
        THEN [m EXCEPT !.scraped_products = f.scraped_products,
                       !.total_scraped = f.total_scraped,
                       !.category_progress = f.category_progress,
                       !.completed_categories = f.completed_categories]
        ELSE m

\* save_progress: the checkpoint written from attributes m.
Plus_save_progress(m) ==
    [st |-> "ok",
     scraped_products |-> m.scraped_products,
     total_scraped |-> m.total_scraped,
     category_progress |-> m.category_progress,
     completed_categories |-> m.completed_categories]

\* __init__ and load_config: the completion flag decides between
\* load_existing_data and load_progress.
Plus_load_config ==
    /\ plus.pc = "start"
    /\ LET completed == plus_disk.completed_flag # "missing"
           m == [plus EXCEPT !.pc = "run", !.scraping_completed = completed]
       IN  plus' = IF ~completed THEN Plus_load_progress(m)
                   ELSE IF plus_disk.products_file.st = "ok"
                   THEN [m EXCEPT !.total_scraped = Len(plus_disk.products_file.data)]
                   ELSE IF plus_disk.products_file.st = "corrupt"
                   THEN [m EXCEPT !.total_scraped = 0]
                   ELSE m
    /\ UNCHANGED <<notPlus, plus_tasks, plus_disk>>

\* signal_handler.
Plus_signal_handler ==
    /\ PlusAlive
    /\ ~plus.shutdown_requested
    /\ plus' = [plus EXCEPT !.shutdown_requested = TRUE]
    /\ UNCHANGED <<notPlus, plus_tasks, plus_disk>>

\* run() up to gather: the short-circuit on a completed run,
\* establish_session, the category list (the fallback slugs make it
\* non-empty), and one task per category that is not completed.
Plus_run ==
    /\ plus.pc = "run"
    /\ IF plus.scraping_completed
       THEN /\ plus' = [plus EXCEPT !.pc = "exited", !.rc = 0]
            /\ UNCHANGED plus_tasks
       ELSE \E established \in BOOLEAN :
               IF ~established
               THEN /\ plus' = [plus EXCEPT !.pc = "finally", !.failing = TRUE,
                                            !.env_failed = TRUE]
                    /\ UNCHANGED plus_tasks
               ELSE /\ plus' = [plus EXCEPT !.pc = "gather"]
                    /\ plus_tasks' =
                         [c \in PlusCategories |->
                            IF /\ ~plus.shutdown_requested
                               /\ ~PlusLimitReached(plus)
                               /\ c \notin plus.completed_categories
                            THEN [NoTask EXCEPT !.pc = "created"]
                            ELSE NoTask]
    /\ UNCHANGED <<notPlus, plus_disk>>

\* No other task is between two awaits.
PlusCanRun(c) ==
    /\ plus.pc = "gather"
    /\ \A d \in PlusCategories \ {c} : plus_tasks[d].pc \notin {"head", "post", "mark"}

\* scrape_category_ultra_fixed from its start, or from the end of a sleep,
\* to the next await: the skip of a completed category, the resume page,
\* the loop condition, the limit check, and the page request going out.
Plus_scrape_category_head(c) ==
    /\ PlusCanRun(c)
    /\ plus_tasks[c].pc \in {"created", "sleep", "head"}
    /\ LET t == plus_tasks[c]
           entering == t.pc = "created"
           page == IF ~entering THEN t.current_page
                   ELSE IF plus.category_progress[c] # None
                   THEN plus.category_progress[c] ELSE 1
           u == [t EXCEPT !.current_page = page]
       IN  plus_tasks' = [plus_tasks EXCEPT ![c] =
              IF entering /\ c \in plus.completed_categories
              THEN [u EXCEPT !.pc = "done"]
              ELSE IF /\ u.consecutive_empty_pages < PlusMaxEmptyPages
                      /\ ~plus.shutdown_requested
                      /\ ~PlusLimitReached(plus)
              THEN [u EXCEPT !.pc = "await"]
              ELSE [u EXCEPT !.pc = "mark"]]
    /\ UNCHANGED <<notPlus, plus, plus_disk>>

\* The loop over one page: a product that is new is recorded and counted,
\* and the loop stops at the product that reaches the limit.
RECURSIVE Plus_collect(_, _, _)
Plus_collect(m, new_products, products) ==
    IF products = <<>> THEN [m |-> m, new_products |-> new_products]
    ELSE LET product_id == ExternalId("plus", Head(products))
         IN  IF product_id # 0 /\ product_id \notin m.scraped_products
             THEN LET n == [m EXCEPT !.scraped_products = @ \cup {product_id},
                                     !.total_scraped = @ + 1]
                      new == Append(new_products, Head(products))
                  IN  IF PlusLimitReached(n)
                      THEN [m |-> n, new_products |-> new]
                      ELSE Plus_collect(n, new, Tail(products))
             ELSE Plus_collect(m, new_products, Tail(products))

\* The page request returns: get_products_ultra_fixed's result, the new
\* products of the page, save_products.
Plus_scrape_category_page(c) ==
    /\ PlusCanRun(c)
    /\ plus_tasks[c].pc = "await"
    /\ \E success \in BOOLEAN :
          LET t == plus_tasks[c]
              products == IF success
                          THEN Page(PlusCatalog(c),
                                    (t.current_page - 1) * PlusPageSize, PlusPageSize)
                          ELSE <<>>
              has_more == success /\ t.current_page < PlusTotalPages /\ products # <<>>
              r == Plus_collect(plus, <<>>, products)
          IN  IF products = <<>>
              THEN /\ plus_tasks' = [plus_tasks EXCEPT ![c] =
                          [t EXCEPT !.pc = "head",
                                    !.consecutive_empty_pages = @ + 1,
                                    !.current_page = @ + 1]]
                   /\ plus' = [plus EXCEPT !.env_failed = @ \/ ~success]
                   /\ UNCHANGED plus_disk
              ELSE /\ plus_tasks' = [plus_tasks EXCEPT ![c] =
                          [t EXCEPT !.pc = "post",
                                    !.consecutive_empty_pages = 0,
                                    !.has_more = has_more]]
                   /\ plus' = r.m
                   /\ plus_disk' = [plus_disk EXCEPT !.products_file =
                          Plus_save_products(@, r.new_products)]
    /\ UNCHANGED notPlus

\* The rest of the iteration: the limit check, category_progress, the
\* checkpoint on even pages, the continuation check.
Plus_scrape_category_progress(c) ==
    /\ plus.pc = "gather"
    /\ plus_tasks[c].pc = "post"
    /\ LET t == plus_tasks[c]
           m == [plus EXCEPT !.category_progress[c] = t.current_page]
       IN  IF PlusLimitReached(plus)
           THEN /\ plus_tasks' = [plus_tasks EXCEPT ![c].pc = "mark"]
                /\ UNCHANGED <<plus, plus_disk>>
           ELSE /\ plus' = m
                /\ plus_disk' = IF t.current_page % 2 = 0
                                THEN [plus_disk EXCEPT !.progress_file =
                                         Plus_save_progress(m)]
                                ELSE plus_disk
                /\ plus_tasks' = [plus_tasks EXCEPT ![c] =
                       IF t.has_more
                       THEN [t EXCEPT !.pc = "sleep", !.current_page = @ + 1]
                       ELSE [t EXCEPT !.pc = "mark"]]
    /\ UNCHANGED notPlus

\* After the loop: the category is marked completed and the progress saved.
Plus_scrape_category_mark(c) ==
    /\ plus.pc = "gather"
    /\ plus_tasks[c].pc = "mark"
    /\ LET m == [plus EXCEPT !.completed_categories = @ \cup {c}]
       IN  /\ plus' = m
           /\ plus_disk' = [plus_disk EXCEPT !.progress_file = Plus_save_progress(m)]
    /\ plus_tasks' = [plus_tasks EXCEPT ![c].pc = "done"]
    /\ UNCHANGED notPlus

\* run(), after gather returned: the completion flag is written.
Plus_run_mark_completion ==
    /\ plus.pc = "gather"
    /\ \A c \in PlusCategories : plus_tasks[c].pc \in {"none", "done"}
    /\ plus_disk' = [plus_disk EXCEPT !.completed_flag = "ok"]
    /\ plus' = [plus EXCEPT !.pc = "finally"]
    /\ UNCHANGED <<notPlus, plus_tasks>>

\* run(), finally: save_progress(); a raised exception ends the process
\* with exit code 1.
Plus_run_finally ==
    /\ plus.pc = "finally"
    /\ plus_disk' = [plus_disk EXCEPT !.progress_file = Plus_save_progress(plus)]
    /\ plus' = [plus EXCEPT !.pc = "exited", !.rc = IF plus.failing THEN 1 ELSE 0]
    /\ UNCHANGED <<notPlus, plus_tasks>>

\* The process is killed.
Plus_kill ==
    /\ PlusAlive
    /\ plus' = [plus EXCEPT !.pc = "dead"]
    /\ plus_tasks' = [c \in PlusCategories |-> NoTask]
    /\ UNCHANGED <<notPlus, plus_disk>>

\* The same job is started again on the same disk.
Plus_restart ==
    /\ plus.pc \in {"dead", "exited"}
    /\ plus.run < MaxRuns
    /\ plus' = PlusFresh(plus.max_products_limit, plus.run + 1, plus.env_failed)
    /\ plus_tasks' = [c \in PlusCategories |-> NoTask]
    /\ UNCHANGED <<notPlus, plus_disk>>

PlusNext ==
    \/ Plus_load_config
    \/ Plus_signal_handler
    \/ Plus_run
    \/ \E c \in PlusCategories : Plus_scrape_category_head(c)
    \/ \E c \in PlusCategories : Plus_scrape_category_page(c)
    \/ \E c \in PlusCategories : Plus_scrape_category_progress(c)
    \/ \E c \in PlusCategories : Plus_scrape_category_mark(c)
    \/ Plus_run_mark_completion
    \/ Plus_run_finally
    \/ Plus_kill
    \/ Plus_restart

\* =================================================================== Aldi
\* aldi-scraper/aldi_scraper.py, started with a job configuration file.  The
\* harvester tasks run on one event loop; each sends one request for its
\* category.
OPTIMAL_CONCURRENCY == 2    \* semaphore slots; 15 in the source, scaled down
MAX_RETRIES == 2
AldiCategorySize == 2       \* articles of each category

\* Three categories with disjoint articles.
AldiCategories == {"c1", "c2", "c3"}
AldiCatalog(c) ==
    Catalog((CASE c = "c1" -> 0 [] c = "c2" -> 1 [] OTHER -> 2) * AldiCategorySize,
            AldiCategorySize)

\* What the source answers to one attempt: a status code, a 200 whose body
\* does not parse, or no answer (the attempt raises).
Answers == {"200", "200_invalid", "429", "401", "404", "timeout"}

\* The answers the Aldi source gives to the attempts of one call.
AldiAnswerSeqs == [1..MAX_RETRIES -> {"200", "429", "404", "timeout"}]

\* make_ultra_request on the answers the source gives to the successive
\* attempts, from attempt number attempt on: whether data is returned, the
\* increments of successful_requests and failed_requests, and the number of
\* requests sent.
RECURSIVE Aldi_make_ultra_request(_, _)
Aldi_make_ultra_request(answers, attempt) ==
    IF attempt >= MAX_RETRIES
    THEN [data |-> FALSE, successful |-> 0, failed |-> 1, sent |-> 0]
    ELSE LET a == answers[attempt + 1]
             rest == Aldi_make_ultra_request(answers, attempt + 1)
         IN  CASE a = "200" ->
                    [data |-> TRUE, successful |-> 1, failed |-> 0, sent |-> 1]
               [] a = "200_invalid" ->
                    [data |-> FALSE, successful |-> 0, failed |-> 1, sent |-> 1]
               [] a \in {"429", "timeout"} ->
                    [rest EXCEPT !.sent = @ + 1]
               [] OTHER ->
                    [data |-> FALSE, successful |-> 0, failed |-> 1, sent |-> 1]

AldiNoTask == [pc |-> "none", answers |-> <<>>, failed |-> 0]

AldiFresh(max_products_limit, run) ==
    [pc |-> "start", run |-> run, rc |-> 0,
     max_products_limit |-> max_products_limit,
     scraping_completed |-> FALSE,
     scraped_products |-> {},
     scraped_categories |-> {},
     completed_categories |-> {},
     total_scraped |-> 0,
     successful_requests |-> 0,
     failed_requests |-> 0,
     semaphore |-> 0,
     failing |-> FALSE]

AldiOff ==
    /\ aldi = [pc |-> "off"]
    /\ aldi_tasks = [pc |-> "off"]
    /\ aldi_disk = [pc |-> "off"]

AldiInit ==
    /\ \E m \in {None} \cup (0..MaxProducts) : aldi = AldiFresh(m, 1)
    /\ aldi_tasks = [c \in AldiCategories |-> AldiNoTask]
    /\ aldi_disk = [products_file |-> MissingFile,
                    progress_file |-> NoProgress,
                    completed_flag |-> "missing"]

AldiAlive == aldi.pc \notin {"start", "dead", "exited"}

\* load_progress.
Aldi_load_progress(m) ==
    LET f == aldi_disk.progress_file
    IN  IF f.st = "ok"
        THEN [m EXCEPT !.scraped_products = f.scraped_products,
                       !.scraped_categories = f.scraped_categories,
                       !.total_scraped = f.total_scraped,
                       !.completed_categories = f.completed_categories]
        ELSE m

\* save_progress: the checkpoint written from attributes m.
Aldi_save_progress(m) ==
    [st |-> "ok",
     scraped_products |-> m.scraped_products,
     scraped_categories |-> m.scraped_categories,
     completed_categories |-> m.completed_categories,
     total_scraped |-> m.total_scraped]

\* load_existing_data: total_scraped is the length of the products file.
Aldi_load_existing_data(m) ==
    IF aldi_disk.products_file.st = "ok"
    THEN [m EXCEPT !.total_scraped = Len(aldi_disk.products_file.data)]
    ELSE IF aldi_disk.products_file.st = "corrupt"
         THEN [m EXCEPT !.total_scraped = 0]
         ELSE m

\* __init__: load_config, counters, then the completion flag decides
\* between load_existing_data and load_progress.
Aldi_init ==
    /\ aldi.pc = "start"
    /\ LET completed == aldi_disk.completed_flag # "missing"
           m == [aldi EXCEPT !.pc = "run", !.scraping_completed = completed]
       IN  aldi' = IF completed THEN Aldi_load_existing_data(m)
                   ELSE Aldi_load_progress(m)
    /\ UNCHANGED <<notAldi, aldi_tasks, aldi_disk>>

\* "async with semaphore": entering takes a slot, leaving gives it back.
AldiAcquire(value) == value - 1
\* Mutant of AldiRelease: the slot is not given back.
AldiRelease_Leak(value) == value

AldiRelease(value) == value + 1

\* run() up to gather: the short-circuit on a completed run, the category
\* request (an empty category list raises), the semaphore, and one task
\* per category that is not completed.
Aldi_run ==
    /\ aldi.pc = "run"
    /\ IF aldi.scraping_completed
       THEN /\ aldi' = [aldi EXCEPT !.pc = "exited", !.rc = 0]
            /\ UNCHANGED aldi_tasks
       ELSE \E answers \in AldiAnswerSeqs, collections \in BOOLEAN :
               LET r == Aldi_make_ultra_request(answers, 0)
                   m == [aldi EXCEPT
                           !.successful_requests = @ + r.successful,
                           !.failed_requests = @ + r.failed]
               IN  IF ~(r.data /\ collections)
                   THEN /\ aldi' = [m EXCEPT !.pc = "finally", !.failing = TRUE]
                        /\ UNCHANGED aldi_tasks
                   ELSE /\ aldi' = [m EXCEPT !.pc = "gather",
                                             !.semaphore = OPTIMAL_CONCURRENCY]
                        /\ aldi_tasks' =
                             [c \in AldiCategories |->
                                IF c \notin aldi.completed_categories
                                THEN [AldiNoTask EXCEPT !.pc = "created"]
                                ELSE AldiNoTask]
    /\ UNCHANGED <<notAldi, aldi_disk>>

\* scrape_category_ultra_optimized from its start to its request: the task
\* waits for a semaphore slot, returns at once for a completed category,
\* and otherwise sends the category request while holding the slot.
Aldi_scrape_category_enter(c) ==
    /\ aldi.pc = "gather"
    /\ aldi_tasks[c].pc = "created"
    /\ aldi.semaphore > 0
    /\ IF c \in aldi.completed_categories
       THEN /\ aldi_tasks' = [aldi_tasks EXCEPT ![c].pc = "done"]
            /\ aldi' = [aldi EXCEPT !.semaphore = AldiRelease(AldiAcquire(@))]
       ELSE /\ aldi_tasks' = [aldi_tasks EXCEPT ![c].pc = "await"]
            /\ aldi' = [aldi EXCEPT !.semaphore = AldiAcquire(@)]
    /\ UNCHANGED <<notAldi, aldi_disk>>

\* The articles of the category that are new, cut to the remaining slots of
\* the product limit, and the attributes after they were recorded.
Aldi_new_products(m, c) ==
    LET IsNew(p) == ExternalId("aldi", p) \notin m.scraped_products
        new == SelectSeq(AldiCatalog(c), IsNew)
        remaining_slots == m.max_products_limit - m.total_scraped
    IN  IF Truthy(m.max_products_limit) /\ new # <<>>
        THEN IF remaining_slots <= 0 THEN <<>>
             ELSE IF Len(new) > remaining_slots
                  THEN SubSeq(new, 1, remaining_slots)
                  ELSE new
        ELSE new

Aldi_record(m, c, new_products) ==
    LET n == [m EXCEPT !.scraped_products = @ \cup IdsOf("aldi", new_products),
                       !.total_scraped = @ + Len(new_products),
                       !.completed_categories = @ \cup {c}]
        stopped ==
            \/ /\ new_products = <<>>
               /\ Truthy(m.max_products_limit)
               /\ m.max_products_limit - m.total_scraped <= 0
               /\ \E i \in DOMAIN AldiCatalog(c) :
                     ExternalId("aldi", AldiCatalog(c)[i]) \notin m.scraped_products
            \/ /\ new_products # <<>>
               /\ Truthy(n.max_products_limit)
               /\ n.total_scraped >= n.max_products_limit
    IN  IF stopped THEN n
        ELSE [n EXCEPT !.scraped_categories = @ \cup {c}]

\* The category request returns: no data ends the harvester; otherwise the
\* new articles are saved and recorded and the category is marked.  The
\* slot is given back on every way out.
Aldi_scrape_category_response(c) ==
    /\ aldi.pc = "gather"
    /\ aldi_tasks[c].pc = "await"
    /\ \E answers \in AldiAnswerSeqs :
          LET r == Aldi_make_ultra_request(answers, 0)
              m == [aldi EXCEPT
                      !.successful_requests = @ + r.successful,
                      !.failed_requests = @ + r.failed,
                      !.semaphore = AldiRelease(@)]
              new_products == Aldi_new_products(m, c)
          IN  /\ aldi_tasks' = [aldi_tasks EXCEPT ![c] =
                     [pc |-> "done", answers |-> SubSeq(answers, 1, r.sent),
                      failed |-> r.failed]]
              /\ IF ~r.data
                 THEN /\ aldi' = m
                      /\ UNCHANGED aldi_disk
                 ELSE /\ aldi' = Aldi_record(m, c, new_products)
                      /\ aldi_disk' = [aldi_disk EXCEPT !.products_file =
                             Aldi_save_products(@, new_products)]
    /\ UNCHANGED notAldi

\* run(), after gather returned: the completion flag is written.
Aldi_run_mark_completion ==
    /\ aldi.pc = "gather"
    /\ \A c \in AldiCategories : aldi_tasks[c].pc \in {"none", "done"}
    /\ aldi_disk' = [aldi_disk EXCEPT !.completed_flag = "ok"]
    /\ aldi' = [aldi EXCEPT !.pc = "finally"]
    /\ UNCHANGED <<notAldi, aldi_tasks>>

\* run(), finally: save_progress(); a raised exception ends the process
\* with exit code 1.
Aldi_run_finally ==
    /\ aldi.pc = "finally"
    /\ aldi_disk' = [aldi_disk EXCEPT !.progress_file = Aldi_save_progress(aldi)]
    /\ aldi' = [aldi EXCEPT !.pc = "exited", !.rc = IF aldi.failing THEN 1 ELSE 0]
    /\ UNCHANGED <<notAldi, aldi_tasks>>

\* The process is killed.
Aldi_kill ==
    /\ AldiAlive
    /\ aldi' = [aldi EXCEPT !.pc = "dead"]
    /\ aldi_tasks' = [c \in AldiCategories |-> AldiNoTask]
    /\ UNCHANGED <<notAldi, aldi_disk>>

\* The same job is started again on the same disk.
Aldi_restart ==
    /\ aldi.pc \in {"dead", "exited"}
    /\ aldi.run < MaxRuns
    /\ aldi' = AldiFresh(aldi.max_products_limit, aldi.run + 1)
    /\ aldi_tasks' = [c \in AldiCategories |-> AldiNoTask]
    /\ UNCHANGED <<notAldi, aldi_disk>>

AldiNext ==
    \/ Aldi_init
    \/ Aldi_run
    \/ \E c \in AldiCategories : Aldi_scrape_category_enter(c)
    \/ \E c \in AldiCategories : Aldi_scrape_category_response(c)
    \/ Aldi_run_mark_completion
    \/ Aldi_run_finally
    \/ Aldi_kill
    \/ Aldi_restart

\* =============================================================== requests
\* One call of a scraper's retry-wrapped request function, on the answers
\* the source gives to the successive HTTP requests of the call.
AH_max_retries == 3
Jumbo_max_retries == 3
Plus_max_retries == 2
Kruidvat_max_retries == 3

\* Jumbo's GraphQL endpoint can also answer 200 with an errors member.
JumboAnswers == Answers \cup {"200_errors"}

\* ah_scraper.py _handle_response on one answer; a timeout is raised by the
\* request itself.  "data": the parsed body is returned; "none": None is
\* returned; "raise": an exception reaches make_request_with_retry.
AH_handle_response(a) ==
    CASE a = "200" -> "data"
      [] a = "200_invalid" -> "none"
      [] OTHER -> "raise"

\* ah_scraper.py make_request_with_retry from attempt number attempt on:
\* whether data is returned, whether the call raises, the number of
\* requests sent, and the authenticate() calls (the function makes none).
RECURSIVE AH_make_request_with_retry(_, _)
AH_make_request_with_retry(answers, attempt) ==
    IF attempt >= AH_max_retries
    THEN [data |-> FALSE, raised |-> FALSE, sent |-> 0, reauths |-> 0]
    ELSE LET r == AH_handle_response(answers[attempt + 1])
             rest == AH_make_request_with_retry(answers, attempt + 1)
         IN  CASE r = "data" -> [data |-> TRUE, raised |-> FALSE, sent |-> 1, reauths |-> 0]
               [] r = "none" -> [data |-> FALSE, raised |-> FALSE, sent |-> 1, reauths |-> 0]
               [] OTHER ->
                    IF attempt = AH_max_retries - 1
                    THEN [data |-> FALSE, raised |-> TRUE, sent |-> 1, reauths |-> 0]
                    ELSE [rest EXCEPT !.sent = @ + 1]

\* jumbo_scraper.py make_graphql_request from attempt number attempt on:
\* whether the call reports success, the increments of successful_requests
\* and failed_requests, and the number of requests sent.
RECURSIVE Jumbo_make_graphql_request(_, _)
Jumbo_make_graphql_request(answers, attempt) ==
    IF attempt >= Jumbo_max_retries
    THEN [data |-> FALSE, successful |-> 0, failed |-> 1, sent |-> 0]
    ELSE LET a == answers[attempt + 1]
             rest == Jumbo_make_graphql_request(answers, attempt + 1)
         IN  CASE a = "200" ->
                    [data |-> TRUE, successful |-> 1, failed |-> 0, sent |-> 1]
               [] a \in {"200_errors", "200_invalid"} ->
                    [data |-> FALSE, successful |-> 0, failed |-> 1, sent |-> 1]
               [] a \in {"429", "timeout"} ->
                    [rest EXCEPT !.sent = @ + 1]
               [] OTHER ->
                    [data |-> FALSE, successful |-> 0, failed |-> 0, sent |-> 1]

\* A request function that treats a throttled attempt as a failed request.
Plus_request_ThrottleFails(answers, attempt) ==
    IF answers[attempt + 1] = "200"
    THEN [data |-> TRUE, successful |-> 1, failed |-> 0, sent |-> 1]
    ELSE [data |-> FALSE, successful |-> 0, failed |-> 1, sent |-> 1]

\* plus_scraper.py make_ultra_fixed_api_request, the retry loop, from
\* attempt number attempt on.
RECURSIVE Plus_make_ultra_fixed_api_request(_, _)
Plus_make_ultra_fixed_api_request(answers, attempt) ==
    IF attempt >= Plus_max_retries
    THEN [data |-> FALSE, successful |-> 0, failed |-> 1, sent |-> 0]
    ELSE LET a == answers[attempt + 1]
             rest == Plus_make_ultra_fixed_api_request(answers, attempt + 1)
         IN  CASE a = "200" ->
                    [data |-> TRUE, successful |-> 1, failed |-> 0, sent |-> 1]
               [] a \in {"429", "timeout"} ->
                    [rest EXCEPT !.sent = @ + 1]
               [] OTHER ->
                    [data |-> FALSE, successful |-> 0, failed |-> 1, sent |-> 1]

\* kruidvat_scraper.py: one attempt of make_request_with_retry, the request
\* and _handle_response, on the answers from position i on.  auth_ok is the
\* result of authenticate().  A 401 drops the session token and
\* authenticates; if that succeeds one more GET is sent, and anything but a
\* 200 to it raises.  used: the requests sent; reauths: authenticate() calls.
Kruidvat_handle_response(answers, i, auth_ok) ==
    LET a == answers[i]
    IN  CASE a = "200" -> [outcome |-> "data", used |-> 1, reauths |-> 0]
          [] a = "200_invalid" -> [outcome |-> "none", used |-> 1, reauths |-> 0]
          [] a = "401" ->
               IF auth_ok
               THEN [outcome |-> IF answers[i + 1] = "200" THEN "data" ELSE "raise",
                     used |-> 2, reauths |-> 1]
               ELSE [outcome |-> "raise", used |-> 1, reauths |-> 1]
          [] OTHER -> [outcome |-> "raise", used |-> 1, reauths |-> 0]

\* kruidvat_scraper.py make_request_with_retry from attempt number attempt
\* on, the next answer being answers[i]; auth[k] is the result of the
\* authenticate() call of attempt k - 1.
RECURSIVE Kruidvat_make_request_with_retry(_, _, _, _)
Kruidvat_make_request_with_retry(answers, auth, attempt, i) ==
    IF attempt >= Kruidvat_max_retries
    THEN [data |-> FALSE, raised |-> FALSE, sent |-> 0, reauths |-> 0]
    ELSE LET r == Kruidvat_handle_response(answers, i, auth[attempt + 1])
             rest == Kruidvat_make_request_with_retry(answers, auth,
                                                      attempt + 1, i + r.used)
         IN  CASE r.outcome = "data" ->
                    [data |-> TRUE, raised |-> FALSE,
                     sent |-> r.used, reauths |-> r.reauths]
               [] r.outcome = "none" ->
                    [data |-> FALSE, raised |-> FALSE,
                     sent |-> r.used, reauths |-> r.reauths]
               [] OTHER ->
                    IF attempt = Kruidvat_max_retries - 1
                    THEN [data |-> FALSE, raised |-> TRUE,
                          sent |-> r.used, reauths |-> r.reauths]
                    ELSE [rest EXCEPT !.sent = @ + r.used,
                                      !.reauths = @ + r.reauths]

\* The calls: the function, the answers of the source (one more than the
\* attempts of the function, two per attempt for Kruidvat, whose draws leave
\* out the body that does not parse) and the results of authenticate().
ReqCalls ==
    {[fn |-> "ah", answers |-> s, auth |-> <<>>] :
        s \in [1..AH_max_retries + 1 -> Answers]}
    \cup {[fn |-> "jumbo", answers |-> s, auth |-> <<>>] :
        s \in [1..Jumbo_max_retries + 1 -> JumboAnswers]}
    \cup {[fn |-> "plus", answers |-> s, auth |-> <<>>] :
        s \in [1..Plus_max_retries + 1 -> Answers]}
    \cup {[fn |-> "aldi", answers |-> s, auth |-> <<>>] :
        s \in [1..MAX_RETRIES + 1 -> Answers]}
    \cup {[fn |-> "kruidvat", answers |-> s, auth |-> a] :
        s \in [1..2 * Kruidvat_max_retries -> Answers \ {"200_invalid"}],
        a \in [1..Kruidvat_max_retries -> BOOLEAN]}

ReqOff == req = [pc |-> "off"]
ReqInit == \E c \in ReqCalls : req = [call |-> c, pc |-> "call"]

ReqReturn(result) == req' = [call |-> req.call, pc |-> "returned", result |-> result]

Req_AH ==
    /\ req.pc = "call" /\ req.call.fn = "ah"
    /\ ReqReturn(AH_make_request_with_retry(req.call.answers, 0))
    /\ UNCHANGED notReq

Req_Jumbo ==
    /\ req.pc = "call" /\ req.call.fn = "jumbo"
    /\ ReqReturn(Jumbo_make_graphql_request(req.call.answers, 0))
    /\ UNCHANGED notReq

Req_Plus ==
    /\ req.pc = "call" /\ req.call.fn = "plus"
    /\ ReqReturn(Plus_make_ultra_fixed_api_request(req.call.answers, 0))
    /\ UNCHANGED notReq

Req_Aldi ==
    /\ req.pc = "call" /\ req.call.fn = "aldi"
    /\ ReqReturn(Aldi_make_ultra_request(req.call.answers, 0))
    /\ UNCHANGED notReq

Req_Kruidvat ==
    /\ req.pc = "call" /\ req.call.fn = "kruidvat"
    /\ ReqReturn(Kruidvat_make_request_with_retry(req.call.answers,
                                                  req.call.auth, 0, 1))
    /\ UNCHANGED notReq

ReqNext ==
    \/ Req_AH
    \/ Req_Jumbo
    \/ Req_Plus
    \/ Req_Aldi
    \/ Req_Kruidvat

\* =============================================================== Kruidvat
\* kruidvat-scraper/kruidvat_scraper.py, started with a job configuration
\* file.  The scraper is synchronous and installs no signal handler.
KruidvatPageSize == 2       \* page_size; 50 in the source, scaled down
KruidvatCategorySize == 3   \* products of each category
KruidvatMaxEmptyPages == 3  \* max_empty_pages

\* Two categories in the order of categories.txt; they share one product.
KruidvatCategories == <<"c1", "c2">>
KruidvatCatalog(c) ==
    IF c = "c1" THEN Catalog(0, KruidvatCategorySize)
    ELSE Catalog(KruidvatCategorySize - 1, KruidvatCategorySize)

\* pagination.totalPages of a search answer.
KruidvatTotalPages ==
    (KruidvatCategorySize + KruidvatPageSize - 1) \div KruidvatPageSize

\* The attributes after "self.x = ..." in __init__; failed records the
\* categories one of whose page requests raised.
KruidvatFresh(max_products_limit, run) ==
    [pc |-> "start", run |-> run, rc |-> 0,
     max_products_limit |-> max_products_limit,
     scraping_completed |-> FALSE,
     scraped_products |-> {},
     scraped_categories |-> {},
     total_scraped |-> 0,
     categories |-> <<>>,
     i |-> 1,
     page |-> 0,
     consecutive_empty_pages |-> 0,
     detailed_products |-> <<>>,
     failed |-> {}]

KruidvatOff ==
    /\ kruidvat = [pc |-> "off"]
    /\ kruidvat_disk = [pc |-> "off"]

KruidvatInit ==
    /\ \E m \in {None} \cup (0..MaxProducts) : kruidvat = KruidvatFresh(m, 1)
    /\ kruidvat_disk = [products_file |-> MissingFile,
                        progress_file |-> NoProgress,
                        completed_flag |-> "missing"]

KruidvatAlive == kruidvat.pc \notin {"start", "dead", "exited"}

\* load_progress.
Kruidvat_load_progress(m) ==
    LET f == kruidvat_disk.progress_file
    IN  IF f.st = "ok"
        THEN [m EXCEPT !.scraped_products = f.scraped_products,
                       !.scraped_categories = f.scraped_categories,
                       !.total_scraped = f.total_scraped]
        ELSE m

\* save_progress: the checkpoint written from attributes m.
Kruidvat_save_progress(m) ==
    [st |-> "ok",
     scraped_products |-> m.scraped_products,
     scraped_categories |-> m.scraped_categories,
     total_scraped |-> m.total_scraped]

\* __init__: with the completion flag present the counter is the length of
\* the products file; without it the progress file is loaded.
Kruidvat_init ==
    /\ kruidvat.pc = "start"
    /\ LET completed == kruidvat_disk.completed_flag # "missing"
           m == [kruidvat EXCEPT !.pc = "scrape", !.scraping_completed = completed]
       IN  kruidvat' =
             IF ~completed THEN Kruidvat_load_progress(m)
             ELSE IF kruidvat_disk.products_file.st = "ok"
             THEN [m EXCEPT !.total_scraped = Len(kruidvat_disk.products_file.data)]
             ELSE m
    /\ UNCHANGED <<notKruidvat, kruidvat_disk>>

KruidvatLimitReached(m) ==
    Truthy(m.max_products_limit) /\ m.total_scraped >= m.max_products_limit

\* scrape() and scrape_all_products up to the category loop: the
\* short-circuit on a completed run, authenticate, get_categories.  A failed
\* authentication, an empty category list and the "COMPLETED" marker all
\* lead to the write of the completion flag.
Kruidvat_scrape ==
    /\ kruidvat.pc = "scrape"
    /\ IF kruidvat.scraping_completed
       THEN kruidvat' = [kruidvat EXCEPT !.pc = "exited", !.rc = 0]
       ELSE \E authenticated \in BOOLEAN, ids \in {<<>>, KruidvatCategories} :
               LET categories ==
                       [n \in DOMAIN ids |->
                           [id |-> ids[n],
                            already_scraped |-> ids[n] \in kruidvat.scraped_categories]]
                   unscraped == {n \in DOMAIN categories :
                                    ~categories[n].already_scraped}
               IN  kruidvat' =
                     IF authenticated /\ unscraped # {}
                     THEN [kruidvat EXCEPT !.pc = "for", !.i = 1,
                                           !.categories = categories]
                     ELSE [kruidvat EXCEPT !.pc = "flag"]
    /\ UNCHANGED <<notKruidvat, kruidvat_disk>>

\* scrape_all_products, the head of one iteration of the category loop.
Kruidvat_scrape_all_products_for ==
    /\ kruidvat.pc = "for"
    /\ kruidvat' =
         IF kruidvat.i > Len(kruidvat.categories)
         THEN [kruidvat EXCEPT !.pc = "flag"]
         ELSE IF kruidvat.categories[kruidvat.i].already_scraped
         THEN [kruidvat EXCEPT !.i = @ + 1]
         ELSE [kruidvat EXCEPT !.pc = "while", !.page = 0,
                               !.consecutive_empty_pages = 0]
    /\ UNCHANGED <<notKruidvat, kruidvat_disk>>

\* The loop over the products of one page: a new product is recorded and
\* counted, and the loop stops at the product that reaches the limit.
RECURSIVE Kruidvat_collect(_, _)
Kruidvat_collect(m, products) ==
    IF products = <<>> THEN m
    ELSE LET product_id == ExternalId("kruidvat", Head(products))
         IN  IF product_id # 0 /\ product_id \notin m.scraped_products
             THEN LET n == [m EXCEPT
                              !.scraped_products = @ \cup {product_id},
                              !.detailed_products = Append(@, Head(products)),
                              !.total_scraped = @ + 1]
                  IN  IF KruidvatLimitReached(n) THEN n
                      ELSE Kruidvat_collect(n, Tail(products))
             ELSE Kruidvat_collect(m, Tail(products))

\* scrape_category_products, the end of an iteration that goes on to the
\* next page: "page += 1", the pagination bound and the loop condition.
Kruidvat_next_page(m, bounded) ==
    IF \/ bounded /\ m.page + 1 >= KruidvatTotalPages
       \/ m.consecutive_empty_pages >= KruidvatMaxEmptyPages
    THEN [m EXCEPT !.pc = "mark", !.page = @ + 1]
    ELSE [m EXCEPT !.pc = "while", !.page = @ + 1]

\* scrape_category_products, one iteration of the page loop up to save_data:
\* the request raises (its retries are exhausted), returns nothing, or
\* returns the page.
Kruidvat_scrape_category_products ==
    /\ kruidvat.pc = "while"
    /\ \E outcome \in {"ok", "none", "raise"} :
          LET c == kruidvat.categories[kruidvat.i].id
              products == Page(KruidvatCatalog(c),
                               kruidvat.page * KruidvatPageSize, KruidvatPageSize)
              empty == [kruidvat EXCEPT !.consecutive_empty_pages = @ + 1]
              found == [kruidvat EXCEPT !.consecutive_empty_pages = 0,
                                        !.detailed_products = <<>>]
              m == Kruidvat_collect(found, products)
          IN  kruidvat' =
                CASE outcome = "raise" ->
                        Kruidvat_next_page([empty EXCEPT !.failed = @ \cup {c}], FALSE)
                  [] outcome = "none" ->
                        Kruidvat_next_page(empty, FALSE)
                  [] products = <<>> ->
                        IF kruidvat.page >= KruidvatTotalPages
                        THEN [empty EXCEPT !.pc = "mark"]
                        ELSE Kruidvat_next_page(empty, FALSE)
                  [] KruidvatLimitReached(found) ->
                        [found EXCEPT !.pc = "mark"]
                  [] m.detailed_products # <<>> ->
                        [m EXCEPT !.pc = "save_data"]
                  [] OTHER ->
                        Kruidvat_next_page(m, TRUE)
    /\ UNCHANGED <<notKruidvat, kruidvat_disk>>

\* scrape_category_products: save_data of the page's new products.
Kruidvat_scrape_category_save_data ==
    /\ kruidvat.pc = "save_data"
    /\ kruidvat_disk' = [kruidvat_disk EXCEPT !.products_file =
                            Kruidvat_save_data(@, kruidvat.detailed_products)]
    /\ kruidvat' = [kruidvat EXCEPT !.pc = "save_progress"]
    /\ UNCHANGED notKruidvat

\* scrape_category_products: save_progress after save_data, the limit check
\* after saving, and the end of the iteration.
Kruidvat_scrape_category_save_progress ==
    /\ kruidvat.pc = "save_progress"
    /\ kruidvat_disk' = [kruidvat_disk EXCEPT !.progress_file =
                            Kruidvat_save_progress(kruidvat)]
    /\ kruidvat' = IF KruidvatLimitReached(kruidvat)
                   THEN [kruidvat EXCEPT !.pc = "mark"]
                   ELSE Kruidvat_next_page(kruidvat, TRUE)
    /\ UNCHANGED notKruidvat

\* scrape_all_products, after scrape_category_products returned: the
\* category is marked scraped.
Kruidvat_scrape_all_products_mark ==
    /\ kruidvat.pc = "mark"
    /\ kruidvat' = [kruidvat EXCEPT
                      !.scraped_categories = @ \cup {kruidvat.categories[kruidvat.i].id},
                      !.pc = "for", !.i = @ + 1]
    /\ UNCHANGED <<notKruidvat, kruidvat_disk>>

\* scrape(): the completion flag is written.
Kruidvat_scrape_mark_completion ==
    /\ kruidvat.pc = "flag"
    /\ kruidvat_disk' = [kruidvat_disk EXCEPT !.completed_flag = "ok"]
    /\ kruidvat' = [kruidvat EXCEPT !.pc = "exited", !.rc = 0]
    /\ UNCHANGED notKruidvat

\* The process is killed; a kill inside a rewrite may leave the file
\* truncated.
Kruidvat_kill ==
    /\ KruidvatAlive
    /\ kruidvat' = [kruidvat EXCEPT !.pc = "dead"]
    /\ \E torn \in BOOLEAN :
          kruidvat_disk' =
            CASE torn /\ kruidvat.pc = "save_data" ->
                    [kruidvat_disk EXCEPT !.products_file = CorruptFile]
              [] torn /\ kruidvat.pc = "save_progress" ->
                    [kruidvat_disk EXCEPT !.progress_file = CorruptProgress]
              [] torn /\ kruidvat.pc = "flag" ->
                    [kruidvat_disk EXCEPT !.completed_flag = "corrupt"]
              [] OTHER -> kruidvat_disk
    /\ UNCHANGED notKruidvat

\* The same job is started again on the same disk.
Kruidvat_restart ==
    /\ kruidvat.pc \in {"dead", "exited"}
    /\ kruidvat.run < MaxRuns
    /\ kruidvat' = KruidvatFresh(kruidvat.max_products_limit, kruidvat.run + 1)
    /\ UNCHANGED <<notKruidvat, kruidvat_disk>>

KruidvatNext ==
    \/ Kruidvat_init
    \/ Kruidvat_scrape
    \/ Kruidvat_scrape_all_products_for
    \/ Kruidvat_scrape_category_products
    \/ Kruidvat_scrape_category_save_data
    \/ Kruidvat_scrape_category_save_progress
    \/ Kruidvat_scrape_all_products_mark
    \/ Kruidvat_scrape_mark_completion
    \/ Kruidvat_kill
    \/ Kruidvat_restart

\* ============================================================ job results
\* GET results of the three job APIs: one request for a job whose registry
\* entry and results file are in any state a job can be in.
JobStatuses == {"queued", "running", "completed", "failed", "cancelled"}

\* The results file <job_id>_products.json the scraper of the job writes
\* while it runs: missing, not parsing, or a product list.
ResultsFiles ==
    {MissingFile, CorruptFile} \cup {OkFile(b) : b \in Batches("ah")}

\* The response: the HTTP status code and the products served.
HttpError(code) == [code |-> code, products |-> <<>>]
HttpOk(products) == [code |-> 200, products |-> products]

\* ah-scraper/scraper_api.py get_job_results; status "none": no such job.
AH_get_job_results(status, file) ==
    CASE status = "none" -> HttpError(404)
      [] status # "completed" -> HttpError(400)
      [] file.st = "missing" -> HttpError(404)
      [] file.st = "corrupt" -> HttpError(500)
      [] OTHER -> HttpOk(file.data)

\* jumbo-scraper/scraper_api.py get_job_results.
Jumbo_get_job_results(status, file) ==
    CASE status = "none" -> HttpError(404)
      [] status # "completed" -> HttpError(400)
      [] file.st = "missing" -> HttpError(404)
      [] file.st = "corrupt" -> HttpError(500)
      [] OTHER -> HttpOk(file.data)

\* aldi-scraper/scraper_api.py get_job_results: the job is looked up in
\* completed_jobs and active_jobs, its status is not read.
Aldi_get_job_results(status, file) ==
    CASE status = "none" -> HttpError(404)
      [] file.st = "missing" -> HttpError(404)
      [] file.st = "corrupt" -> HttpError(500)
      [] OTHER -> HttpOk(file.data)

\* The registry record of a job with the given status, as the handler that
\* set the status left it.
JobRecord(status) ==
    [status |-> status,
     completed_at |-> IF status \in {"completed", "failed", "cancelled"}
                      THEN "at_termination" ELSE "unset",
     error |-> CASE status = "failed" -> "Process failed with return code"
                 [] status = "cancelled" -> "Job cancelled by user"
                 [] OTHER -> ""]

\* The response of cancel_job: the code, and the record it leaves.
CancelAccepted(job) == [code |-> 200, job |-> job]
CancelRejected(code, job) == [code |-> code, job |-> job]

\* ah-scraper/scraper_api.py cancel_job, on the registry record (the process
\* it terminates is in Cancel_terminate).
AH_cancel_job_NoCheck(job) ==
    IF job.status = "none" THEN CancelRejected(404, job)
    ELSE CancelAccepted([job EXCEPT !.status = "cancelled", !.completed_at = "at_cancel",
                                    !.error = "Job cancelled by user"])
AH_cancel_job(job) ==
    CASE job.status = "none" -> CancelRejected(404, job)
      [] job.status \notin {"queued", "running"} -> CancelRejected(400, job)
      [] OTHER -> CancelAccepted([job EXCEPT !.status = "cancelled",
                                             !.completed_at = "at_cancel",
                                             !.error = "Job cancelled by user"])

\* jumbo-scraper/scraper_api.py cancel_job.
Jumbo_cancel_job(job) ==
    CASE job.status = "none" -> CancelRejected(404, job)
      [] job.status \notin {"queued", "running"} -> CancelRejected(400, job)
      [] OTHER -> CancelAccepted([job EXCEPT !.status = "cancelled",
                                             !.completed_at = "at_cancel",
                                             !.error = "Job cancelled by user"])

\* aldi-scraper/scraper_api.py cancel_job: only a job in active_jobs (queued
\* or running) is found; it moves to completed_jobs as cancelled.
Aldi_cancel_job_record(job) ==
    IF job.status \notin {"queued", "running"} THEN CancelRejected(404, job)
    ELSE CancelAccepted([job EXCEPT !.status = "cancelled", !.completed_at = "at_cancel"])

HttpOff == http = [pc |-> "off"]
HttpInit ==
    \E a \in {"ah", "jumbo", "aldi"}, request \in {"results", "cancel"},
       status \in JobStatuses \cup {"none"}, file \in ResultsFiles :
        /\ status \in {"none", "queued"} => file = MissingFile
        /\ http = [pc |-> "request", api |-> a, request |-> request,
                   status |-> status, job |-> JobRecord(status), file |-> file]

HttpRespond(response) ==
    http' = [http EXCEPT !.pc = "responded"] @@ [response |-> response]

Http_AH_get_job_results ==
    /\ http.pc = "request" /\ http.api = "ah" /\ http.request = "results"
    /\ HttpRespond(AH_get_job_results(http.status, http.file))
    /\ UNCHANGED notHttp

Http_Jumbo_get_job_results ==
    /\ http.pc = "request" /\ http.api = "jumbo" /\ http.request = "results"
    /\ HttpRespond(Jumbo_get_job_results(http.status, http.file))
    /\ UNCHANGED notHttp

Http_Aldi_get_job_results ==
    /\ http.pc = "request" /\ http.api = "aldi" /\ http.request = "results"
    /\ HttpRespond(Aldi_get_job_results(http.status, http.file))
    /\ UNCHANGED notHttp

HttpCancelled(r) ==
    http' = [http EXCEPT !.pc = "responded", !.job = r.job]
                @@ [response |-> [code |-> r.code, products |-> <<>>]]

Http_AH_cancel_job ==
    /\ http.pc = "request" /\ http.api = "ah" /\ http.request = "cancel"
    /\ HttpCancelled(AH_cancel_job(http.job))
    /\ UNCHANGED notHttp

Http_Jumbo_cancel_job ==
    /\ http.pc = "request" /\ http.api = "jumbo" /\ http.request = "cancel"
    /\ HttpCancelled(Jumbo_cancel_job(http.job))
    /\ UNCHANGED notHttp

Http_Aldi_cancel_job ==
    /\ http.pc = "request" /\ http.api = "aldi" /\ http.request = "cancel"
    /\ HttpCancelled(Aldi_cancel_job_record(http.job))
    /\ UNCHANGED notHttp

HttpNext ==
    \/ Http_AH_get_job_results
    \/ Http_Jumbo_get_job_results
    \/ Http_Aldi_get_job_results
    \/ Http_AH_cancel_job
    \/ Http_Jumbo_cancel_job
    \/ Http_Aldi_cancel_job

\* ============================================================ discovery
\* Category discovery at the start of a run: the category list the source
\* returns, the configured categories_limit, and the categories the run
\* goes on to harvest.

MaxCategoriesLimit == 2
SourceCategoryIds == {"c1", "c2", "c3", "20603"}

\* AHScraper.excluded_categories; the Aldi and Jumbo scrapers have none.
excluded_categories(a) == IF a = "ah" THEN {"20603"} ELSE {}

RECURSIVE CategoryLists(_)
CategoryLists(n) ==
    IF n = 0 THEN {<<>>}
    ELSE LET shorter == CategoryLists(n - 1)
         IN  shorter \cup {Append(l, c) : l \in {k \in shorter : Len(k) = n - 1},
                                          c \in SourceCategoryIds}
SourceLists ==
    {l \in CategoryLists(Cardinality(SourceCategoryIds)) :
        \A i, k \in DOMAIN l : i # k => l[i] # l[k]}

\* The loop of AHScraper.fetch_all_categories over the response.
RECURSIVE AH_fetch_loop(_, _, _)
AH_fetch_loop(data, categories_limit, categories) ==
    IF data = <<>> THEN categories
    ELSE IF Head(data) \notin excluded_categories("ah")
         THEN LET added == Append(categories, Head(data))
              IN  IF Truthy(categories_limit) /\ Len(added) >= categories_limit
                  THEN added
                  ELSE AH_fetch_loop(Tail(data), categories_limit, added)
         ELSE AH_fetch_loop(Tail(data), categories_limit, categories)

\* AHScraper.fetch_all_categories: self.categories, which
\* scrape_complete_catalog iterates; an empty response fails the discovery.
AH_fetch_all_categories(data, categories_limit) ==
    IF data = <<>> THEN <<>> ELSE AH_fetch_loop(data, categories_limit, <<>>)

\* AldiUltraOptimizedScraper.run: a harvester task for every category of
\* get_categories_ultra_optimized; categories_limit is loaded and not read.
Aldi_run_category_tasks(data, categories_limit) == data

\* JumboGraphQLOptimizedScraper.run: the discovered tiles are logged, and the
\* one category harvested is the fixed "bbq".
Jumbo_run_categories(data, categories_limit) ==
    IF data = <<>> THEN <<>> ELSE <<"bbq">>

DiscoveryOff == discovery = [pc |-> "off"]
DiscoveryInit ==
    \E a \in {"ah", "aldi", "jumbo"}, data \in SourceLists,
       L \in {None} \cup (0..MaxCategoriesLimit) :
        discovery = [pc |-> "fetch", api |-> a, data |-> data,
                     categories_limit |-> L]

DiscoveryStart(categories) ==
    discovery' = [discovery EXCEPT !.pc = "harvest"] @@ [categories |-> categories]

Discovery_AH ==
    /\ discovery.pc = "fetch" /\ discovery.api = "ah"
    /\ DiscoveryStart(AH_fetch_all_categories(discovery.data,
                                              discovery.categories_limit))
    /\ UNCHANGED notDiscovery

Discovery_Aldi ==
    /\ discovery.pc = "fetch" /\ discovery.api = "aldi"
    /\ DiscoveryStart(Aldi_run_category_tasks(discovery.data,
                                              discovery.categories_limit))
    /\ UNCHANGED notDiscovery

Discovery_Jumbo ==
    /\ discovery.pc = "fetch" /\ discovery.api = "jumbo"
    /\ DiscoveryStart(Jumbo_run_categories(discovery.data,
                                           discovery.categories_limit))
    /\ UNCHANGED notDiscovery

DiscoveryNext ==
    \/ Discovery_AH
    \/ Discovery_Aldi
    \/ Discovery_Jumbo

\* =============================================================== tuning
\* The adaptive attributes of the Jumbo scraper: current_batch_size, which
\* adapt_batch_size changes, and base_delay, which a 429 answer to
\* make_graphql_request raises.  Rates are in percent; a delay is the exact
\* fraction num / den of a second.

Jumbo_OPTIMAL_BATCH_SIZE == 100
FALLBACK_BATCH_SIZE == 30
SAFE_REQUEST_INTERVAL == [num |-> 1, den |-> 10]
MaxBaseDelay == [num |-> 2, den |-> 1]

Max(a, b) == IF a >= b THEN a ELSE b
DelayLeq(x, y) == x.num * y.den <= y.num * x.den

\* The batch sizes load_progress accepts, and the one __init__ sets.
ValidBatchSizes == {30, 50, 100}
SuccessRates == {0, 79, 80, 94, 95, 100}

\* adapt_batch_size: the new current_batch_size.
Jumbo_adapt_batch_size_NoFloor(current_batch_size, success_rate) ==
    IF success_rate >= 95
    THEN Min(current_batch_size + 20, Jumbo_OPTIMAL_BATCH_SIZE)
    ELSE IF success_rate < 80 THEN current_batch_size - 20 ELSE current_batch_size
Jumbo_adapt_batch_size(current_batch_size, success_rate) ==
    IF success_rate >= 95
    THEN IF current_batch_size < Jumbo_OPTIMAL_BATCH_SIZE
         THEN Min(current_batch_size + 20, Jumbo_OPTIMAL_BATCH_SIZE)
         ELSE current_batch_size
    ELSE IF success_rate < 80
         THEN Max(FALLBACK_BATCH_SIZE, current_batch_size - 20)
         ELSE current_batch_size

\* make_graphql_request, the 429 branch: min(base_delay * 1.5, 2.0).
Jumbo_throttled_delay_Reset(base_delay) == [num |-> 1, den |-> 20]
Jumbo_throttled_delay(base_delay) ==
    LET raised == [num |-> 3 * base_delay.num, den |-> 2 * base_delay.den]
    IN  IF DelayLeq(raised, MaxBaseDelay) THEN raised ELSE MaxBaseDelay

TuningOff == tuning = [pc |-> "off"]
TuningInit ==
    \E size \in ValidBatchSizes :
        tuning = [pc |-> "run", current_batch_size |-> size,
                  base_delay |-> SAFE_REQUEST_INTERVAL,
                  call |-> "none", success_rate |-> 0]

Tuning_adapt_batch_size ==
    /\ tuning.pc = "run"
    /\ \E success_rate \in SuccessRates :
          tuning' = [tuning EXCEPT
                        !.current_batch_size = Jumbo_adapt_batch_size(@, success_rate),
                        !.call = "adapt_batch_size",
                        !.success_rate = success_rate]
    /\ UNCHANGED notTuning

Tuning_rate_limited ==
    /\ tuning.pc = "run"
    /\ tuning' = [tuning EXCEPT !.base_delay = Jumbo_throttled_delay(@),
                                !.call = "429", !.success_rate = 0]
    /\ UNCHANGED notTuning

TuningNext ==
    \/ Tuning_adapt_batch_size
    \/ Tuning_rate_limited

\* ============================================================== wrapper
\* The Jumbo scraper started by jumbo_scraper_wrapper.py with a job config.
\* Files are named by path; a flag file exists or not, a progress file is
\* missing (None) or holds a total_scraped, a products file holds a number
\* of products.

\* The paths __init__ computes, and the paths the job config names.
DefaultPaths ==
    [completed_flag |-> "jumbo_scrape_complete.flag",
     progress_file |-> "jumbo_scrape_progress.json",
     products_file |-> "jumbo_products.json"]
job_config ==
    [completed_flag |-> "job_complete.flag",
     progress_file |-> "job_progress.json",
     products_file |-> "job_products.json"]

FlagPaths == {DefaultPaths.completed_flag, job_config.completed_flag}
ProgressPaths == {DefaultPaths.progress_file, job_config.progress_file}
ProductsPaths == {DefaultPaths.products_file, job_config.products_file}

NotConsulted == "none"

WrapperOff ==
    /\ wrapper = [pc |-> "off"]
    /\ wrapper_disk = [pc |-> "off"]

\* The job's files do not exist before its first start; the default files
\* are what earlier runs of jumbo_scraper.py itself left behind.
WrapperInit ==
    /\ wrapper = [pc |-> "start", run |-> 1,
                  completed_flag |-> DefaultPaths.completed_flag,
                  progress_file |-> DefaultPaths.progress_file,
                  products_file |-> DefaultPaths.products_file,
                  scraping_completed |-> FALSE,
                  total_scraped |-> 0,
                  consulted |-> [completed_flag |-> NotConsulted,
                                 progress_file |-> NotConsulted],
                  written |-> {}]
    /\ \E flag \in BOOLEAN, progress \in {None} \cup (0..MaxProducts),
          products \in 0..MaxProducts :
          /\ wrapper_disk =
                [flags |-> [p \in FlagPaths |->
                               p = DefaultPaths.completed_flag /\ flag],
                 progress |-> [p \in ProgressPaths |->
                                  IF p = DefaultPaths.progress_file
                                  THEN progress ELSE None],
                 products |-> [p \in ProductsPaths |->
                                  IF p = DefaultPaths.products_file
                                  THEN products ELSE 0]]

\* main(): JumboGraphQLOptimizedScraper(...).  __init__ sets the paths, then
\* checks the completion flag and loads the existing data or the progress.
\* consulted: the paths these startup reads were made with.
Wrapper_init ==
    /\ wrapper.pc = "start"
    /\ LET paths == DefaultPaths
           completed == wrapper_disk.flags[paths.completed_flag]
           saved == wrapper_disk.progress[paths.progress_file]
       IN  wrapper' =
             [wrapper EXCEPT
                !.pc = "constructed",
                !.completed_flag = paths.completed_flag,
                !.progress_file = paths.progress_file,
                !.products_file = paths.products_file,
                !.scraping_completed = completed,
                !.total_scraped =
                    IF completed THEN wrapper_disk.products[paths.products_file]
                    ELSE IF saved # None THEN saved ELSE 0,
                !.consulted =
                    [completed_flag |-> paths.completed_flag,
                     progress_file |-> IF completed THEN NotConsulted
                                       ELSE paths.progress_file],
                !.written = {}]
    /\ UNCHANGED <<wrapper_disk, notWrapper>>

\* patch_scraper_for_infrastructure: the path attributes are replaced by
\* those of the job config.
Wrapper_patch_scraper_for_infrastructure ==
    /\ wrapper.pc = "constructed"
    /\ wrapper' = [wrapper EXCEPT
                      !.pc = "patched",
                      !.completed_flag = job_config.completed_flag,
                      !.progress_file = job_config.progress_file,
                      !.products_file = job_config.products_file]
    /\ UNCHANGED <<wrapper_disk, notWrapper>>

\* scraper.run(): nothing is done after a completed run; otherwise new
\* products are saved, the progress is saved, and, unless the run is cut
\* short, the completion flag is written.
Wrapper_run ==
    /\ wrapper.pc = "patched"
    /\ IF wrapper.scraping_completed
       THEN /\ wrapper' = [wrapper EXCEPT !.pc = "exited"]
            /\ UNCHANGED wrapper_disk
       ELSE \E new \in 0..(MaxProducts -
                            Max(wrapper.total_scraped,
                                wrapper_disk.products[wrapper.products_file])),
               finished \in BOOLEAN :
               LET total == wrapper.total_scraped + new
               IN  /\ wrapper_disk' =
                        [wrapper_disk EXCEPT
                           !.products[wrapper.products_file] = @ + new,
                           !.progress[wrapper.progress_file] = total,
                           !.flags[wrapper.completed_flag] = @ \/ finished]
                   /\ wrapper' =
                        [wrapper EXCEPT
                           !.pc = "exited",
                           !.total_scraped = total,
                           !.written =
                               {wrapper.progress_file} \cup
                               (IF new > 0 THEN {wrapper.products_file} ELSE {}) \cup
                               (IF finished THEN {wrapper.completed_flag} ELSE {})]
    /\ UNCHANGED notWrapper

\* The wrapper is started again with the same job config.
Wrapper_restart ==
    /\ wrapper.pc = "exited"
    /\ wrapper.run < MaxRuns
    /\ wrapper' = [wrapper EXCEPT !.pc = "start", !.run = @ + 1]
    /\ UNCHANGED <<wrapper_disk, notWrapper>>

WrapperNext ==
    \/ Wrapper_init
    \/ Wrapper_patch_scraper_for_infrastructure
    \/ Wrapper_run
    \/ Wrapper_restart

\* ========================================================== specifications
InitStore == StoreInit /\ JobsOff /\ JumboOff /\ AHOff /\ PlusOff /\ AldiOff /\ ReqOff /\ KruidvatOff /\ HttpOff /\ DiscoveryOff /\ TuningOff /\ WrapperOff
SpecStore == InitStore /\ [][StoreNext]_vars

InitJobs == JobsInit /\ StoreOff /\ JumboOff /\ AHOff /\ PlusOff /\ AldiOff /\ ReqOff /\ KruidvatOff /\ HttpOff /\ DiscoveryOff /\ TuningOff /\ WrapperOff
SpecJobs == InitJobs /\ [][JobsNext]_vars
\* The AH and Jumbo job services under the scheduling the code relies on: a
\* background task that can take its next step takes it, a request handler
\* that has begun runs to its end, and the scraper subprocess eventually
\* exits.  At most FairJobs jobs are created in a lifetime.
FairJobs == 2
JobsCreated == Cardinality({j \in Jobs : jobs[j].status # "none"})
InitJobsFair == InitJobs /\ api \in {"ah", "jumbo"}
JobsFairNext ==
    \/ AH_start_scraping /\ JobsCreated < FairJobs
    \/ Jumbo_start_scraping_job /\ JobsCreated < FairJobs
    \/ \E j \in Jobs : Run_mark(j)
    \/ \E j \in Jobs : Run_spawn(j)
    \/ \E j \in Jobs : Proc_exit(j)
    \/ \E j \in Jobs : Run_reap(j)
    \/ \E j \in Jobs : Run_notify(j)
    \/ \E j \in Jobs : Run_cleanup(j)
    \/ \E j \in Jobs : Cancel_terminate(j)
    \/ \E j \in Jobs : Cancel_update(j)
JobsFairness ==
    \A j \in Jobs :
        /\ WF_vars(Run_mark(j))
        /\ WF_vars(Run_spawn(j))
        /\ WF_vars(Proc_exit(j))
        /\ WF_vars(Run_reap(j))
        /\ WF_vars(Run_notify(j))
        /\ WF_vars(Run_cleanup(j))
        /\ WF_vars(Cancel_update(j))
SpecJobsFair == InitJobsFair /\ [][JobsFairNext]_vars /\ JobsFairness

InitJumbo == JumboInit /\ StoreOff /\ JobsOff /\ AHOff /\ PlusOff /\ AldiOff /\ ReqOff /\ KruidvatOff /\ HttpOff /\ DiscoveryOff /\ TuningOff /\ WrapperOff
SpecJumbo == InitJumbo /\ [][JumboNext]_vars

InitAH == AHInit /\ StoreOff /\ JobsOff /\ JumboOff /\ PlusOff /\ AldiOff /\ ReqOff /\ KruidvatOff /\ HttpOff /\ DiscoveryOff /\ TuningOff /\ WrapperOff
SpecAH == InitAH /\ [][AHNext]_vars

InitPlus == PlusInit /\ StoreOff /\ JobsOff /\ JumboOff /\ AHOff /\ AldiOff /\ ReqOff /\ KruidvatOff /\ HttpOff /\ DiscoveryOff /\ TuningOff /\ WrapperOff
SpecPlus == InitPlus /\ [][PlusNext]_vars

InitAldi == AldiInit /\ StoreOff /\ JobsOff /\ JumboOff /\ AHOff /\ PlusOff /\ ReqOff /\ KruidvatOff /\ HttpOff /\ DiscoveryOff /\ TuningOff /\ WrapperOff
SpecAldi == InitAldi /\ [][AldiNext]_vars

InitReq == ReqInit /\ StoreOff /\ JobsOff /\ JumboOff /\ AHOff /\ PlusOff /\ AldiOff /\ KruidvatOff /\ HttpOff /\ DiscoveryOff /\ TuningOff /\ WrapperOff
SpecReq == InitReq /\ [][ReqNext]_vars

InitKruidvat == KruidvatInit /\ StoreOff /\ JobsOff /\ JumboOff /\ AHOff /\ PlusOff /\ AldiOff /\ ReqOff /\ HttpOff /\ DiscoveryOff /\ TuningOff /\ WrapperOff
SpecKruidvat == InitKruidvat /\ [][KruidvatNext]_vars

InitHttp == HttpInit /\ StoreOff /\ JobsOff /\ JumboOff /\ AHOff /\ PlusOff /\ AldiOff /\ ReqOff /\ KruidvatOff /\ DiscoveryOff /\ TuningOff /\ WrapperOff
SpecHttp == InitHttp /\ [][HttpNext]_vars

InitDiscovery == DiscoveryInit /\ StoreOff /\ JobsOff /\ JumboOff /\ AHOff /\ PlusOff /\ AldiOff /\ ReqOff /\ KruidvatOff /\ HttpOff /\ TuningOff /\ WrapperOff
SpecDiscovery == InitDiscovery /\ [][DiscoveryNext]_vars

InitTuning == TuningInit /\ StoreOff /\ JobsOff /\ JumboOff /\ AHOff /\ PlusOff /\ AldiOff /\ ReqOff /\ KruidvatOff /\ HttpOff /\ DiscoveryOff /\ WrapperOff
SpecTuning == InitTuning /\ [][TuningNext]_vars

InitWrapper == WrapperInit /\ StoreOff /\ JobsOff /\ JumboOff /\ AHOff /\ PlusOff /\ AldiOff /\ ReqOff /\ KruidvatOff /\ HttpOff /\ DiscoveryOff /\ TuningOff
SpecWrapper == InitWrapper /\ [][WrapperNext]_vars

\* ================================================================== claims
\* C1: the persisted product store never contains two products with the
\* same external id, after any sequence of persist calls of any scraper,
\* crashes and restarts included.
C1_NoDuplicateIds ==
    \A i, j \in DOMAIN st_file.data :
        i # j => ExternalId(st_kind, st_file.data[i]) # ExternalId(st_kind, st_file.data[j])

\* A persist call filtered a duplicate out of its batch and the store holds
\* several products.
C1_Witness ==
    /\ st_file.st = "ok"
    /\ Len(st_file.data) >= 2
    /\ st_filtered > 0

\* C4: in the AH and Jumbo job APIs the number of jobs whose status is
\* "running" never exceeds MAX_CONCURRENT_JOBS, whatever the interleaving of
\* CreateJob requests, CancelJob requests and background tasks.
C4_RunningWithinCap ==
    api \in {"ah", "jumbo"} => get_running_job_count <= MAX_CONCURRENT_JOBS

\* C5: job status is monotonic: once a job's status is completed, failed or
\* cancelled, no step of the background task, of its exception handler or of
\* cancel_job changes it again.
C5_TerminalStatusIsFinal ==
    [][\A j \in Jobs :
          jobs[j].status \in {"completed", "failed", "cancelled"}
              => jobs'[j].status = jobs[j].status]_vars

\* C6: a failure while emitting the completion notification never fails the
\* job: the webhook step of a job whose subprocess exited with code 0, and
\* which the status update marked completed, leaves the status completed.
C6_WebhookFailureKeepsCompleted ==
    [][\A j \in Jobs :
          (task[j] = "notify" /\ task'[j] = "cleanup" /\ jobs[j].status = "completed")
              => jobs'[j].status = "completed"]_vars

\* C8: discovery failure is job-fatal: when the scraper run found no
\* categories, the status update that follows the end of the subprocess
\* marks the job failed, never completed.
C8_NoCategoriesFailsJob ==
    [][\A j \in Jobs :
          (task[j] = "spawned" /\ task'[j] # "spawned" /\ proc[j].report = "no_categories")
              => jobs'[j].status = "failed"]_vars

\* C2: for every max_products = M >= 0 a job is created with, M = 0
\* included, the total_scraped a scraper run ends with never exceeds M.
C2_TotalWithinLimit ==
    /\ (jumbo.pc = "exited" /\ jumbo.max_products # None)
          => jumbo.total_scraped <= jumbo.max_products
    /\ (ah.pc = "exited" /\ ah.max_products_limit # None)
          => ah.total_scraped_items <= ah.max_products_limit

\* C3: limit under concurrency (Plus): with max_products half the size of
\* a category and two categories of new products harvested concurrently,
\* an uninterrupted run with every request answered ends with
\* total_scraped equal to the limit, both categories marked completed and
\* exactly that many products persisted, whatever the interleaving.
C3_LimitExactUnderConcurrency ==
    (/\ plus.pc = "exited"
     /\ plus.run = 1
     /\ ~plus.shutdown_requested
     /\ ~plus.env_failed
     /\ plus.max_products_limit = PlusCategorySize \div 2)
        => /\ plus.total_scraped = plus.max_products_limit
           /\ plus.completed_categories = PlusCategories
           /\ Len(plus_disk.products_file.data) = plus.max_products_limit

\* C7: the completion flag is written only when harvesting ran to its end:
\* at the step that writes it every discovered category has been scraped or
\* the product limit has been reached; it is never written after a shutdown
\* signal cut the category loop short.
C7_FlagOnlyAfterFullHarvest ==
    [][(ah_disk.completed_flag = "missing" /\ ah_disk'.completed_flag = "ok")
          => \/ AHLimitReached(ah)
             \/ \A k \in DOMAIN ah.categories :
                    ah.categories[k] \in ah.scraped_categories]_vars

\* C9: resume idempotence: a job that was interrupted (signal or kill) and
\* then resumed, with items checkpointed, every request answered and no
\* product limit, ends with the same persisted products as an uninterrupted
\* run: all products of all categories.
C9_ResumedRunCompletesStore ==
    (/\ ah.pc = "exited"
     /\ ah.run > 1
     /\ ah_disk.progress_file.st = "ok"
     /\ ah_disk.progress_file.total_scraped_items > 0
     /\ ~ah.shutdown_requested
     /\ ~ah.env_failed
     /\ ah.max_products_limit = None)
        => /\ ah_disk.output_file.st = "ok"
           /\ IdsOf("ah", ah_disk.output_file.data) = AHAllIds

\* C10: a resumed run issues its first page request at the cursor the
\* checkpoint recorded (the offset load_progress restored), not at the
\* initial cursor.
C10_FirstRequestAtCheckpoint ==
    [][(jumbo.pc = "loop" /\ jumbo.last_request = None /\ jumbo'.last_request # None)
          => jumbo'.last_request = jumbo.current_offset]_vars

\* C11: persist is crash-atomic: whatever happens to the process during a
\* persist call, a store file that held a snapshot still holds one
\* afterwards, with every product that was persisted before.
C11_CrashKeepsSnapshot ==
    [][st_file.st = "ok"
          => /\ st_file'.st = "ok"
             /\ IdsOf(st_kind, st_file.data) \subseteq IdsOf(st_kind, st_file'.data)]_vars

\* C12: a checkpoint save is all-or-nothing: a progress file that held a
\* checkpoint holds a checkpoint after every step, a crash inside
\* save_progress included.
C12_CheckpointAllOrNothing ==
    [][ah_disk.progress_file.st = "ok" => ah_disk'.progress_file.st = "ok"]_vars

\* C13: no lost updates between concurrent harvesters: in a run of the Plus
\* scraper, at every moment the store holds every product that any category
\* harvester has passed to save_products so far (each such product is the
\* one recorded in scraped_products by the same loop).
C13_NoLostUpdates ==
    (plus.pc \in {"gather", "flag", "finally", "exited"} /\ plus.run = 1)
        => plus.scraped_products
              \subseteq IdsOf("plus", LoadExisting(plus_disk.products_file))

\* Both harvesters have persisted products of their own category while the
\* other one was under way, and both have returned.
C13_Witness ==
    /\ plus.pc = "gather"
    /\ plus.run = 1
    /\ \A c \in PlusCategories : plus_tasks[c].pc = "done"
    /\ \A c \in PlusCategories :
          IdsOf("plus", PlusCatalog(c))
             \subseteq IdsOf("plus", LoadExisting(plus_disk.products_file))

\* C15: a run that starts with the completion marker present reports the
\* product count of the prior run (the total that run checkpointed) and
\* sends no request.
C15_ShortCircuitReportsPriorCount ==
    (/\ jumbo.pc = "exited"
     /\ jumbo.scraping_completed
     /\ jumbo_disk.progress_file.st = "ok")
        => /\ jumbo.last_request = None
           /\ jumbo.total_scraped = jumbo_disk.progress_file.total_scraped

C16_NoProcessAfterCancel ==
    [][\A j \in Jobs :
          /\ (cancel_pc[j] = "update" /\ cancel_pc'[j] = "idle")
                => proc'[j].st # "alive"
          /\ jobs[j].error = "Job cancelled by user"
                => ~(proc[j].st # "alive" /\ proc'[j].st = "alive")]_vars

\* C17: throttling is not a hard failure: in AH's make_request_with_retry and
\* Jumbo's make_graphql_request a call whose first k requests are answered
\* with 429 and whose next request is answered with 200 returns the data,
\* for every k, also when k reaches max_retries.
C17_ThrottledThenOkSucceeds ==
    (req.pc = "returned" /\ req.call.fn \in {"ah", "jumbo"}) =>
        \A k \in 0..AH_max_retries :
            (/\ \A n \in 1..k : req.call.answers[n] = "429"
             /\ req.call.answers[k + 1] = "200")
                => req.result.data

\* C18: a throttled attempt leaves the failure counter unchanged: when the
\* request functions of Jumbo, Plus and Aldi get one 429 and then a 200, the
\* call returns the page (so the category harvester gets all its items),
\* failed_requests is not incremented, and two requests were sent.
C18_ThrottledOnceNoFailure ==
    (/\ req.pc = "returned"
     /\ req.call.fn \in {"jumbo", "plus", "aldi"}
     /\ req.call.answers[1] = "429"
     /\ req.call.answers[2] = "200")
        => /\ req.result.data
           /\ req.result.failed = 0
           /\ req.result.successful = 1
           /\ req.result.sent = 2

C18_Witness ==
    /\ req.pc = "returned"
    /\ req.call.fn = "plus"
    /\ req.call.answers[1] = "429"
    /\ req.call.answers[2] = "200"
    /\ req.result.data
    /\ req.result.failed = 0

\* C19: bounded retries: when the source answers every request of a call
\* with the same 4xx status (401 included), one call of AH's or Kruidvat's
\* make_request_with_retry sends at most max_retries requests.
C19_AtMostMaxRetriesRequests ==
    (/\ req.pc = "returned"
     /\ req.call.fn \in {"ah", "kruidvat"}
     /\ \E s \in {"401", "404", "429"} :
            \A n \in DOMAIN req.call.answers : req.call.answers[n] = s)
        => req.result.sent <= (IF req.call.fn = "ah" THEN AH_max_retries
                               ELSE Kruidvat_max_retries)

\* C20: auth expiry handling: when the first answer to a call of AH's or
\* Kruidvat's make_request_with_retry is 401 (and the re-authentication
\* succeeds), the call authenticates exactly once and sends exactly one more
\* request; it returns the data if that retry is answered with 200 and fails
\* otherwise, with no further re-authentication or retry.
C20_OneReauthOneRetry ==
    (/\ req.pc = "returned"
     /\ req.call.fn \in {"ah", "kruidvat"}
     /\ req.call.answers[1] = "401"
     /\ req.call.fn = "kruidvat" => req.call.auth[1])
        => /\ req.result.reauths = 1
           /\ req.result.sent = 2
           /\ req.result.data <=> req.call.answers[2] = "200"

\* C21: a category failure is absorbed: once a page request of a category
\* has exhausted its retries the harvester of that category sends no further
\* request; the category loop still visits every remaining category, and the
\* process ends with exit code 0, so the job is not failed because of it.
C21_CategoryFailureAbsorbed ==
    /\ kruidvat.pc = "while"
          => kruidvat.categories[kruidvat.i].id \notin kruidvat.failed
    /\ (kruidvat.pc = "exited" /\ kruidvat.failed # {})
          => /\ kruidvat.rc = 0
             /\ \A n \in DOMAIN kruidvat.categories :
                   kruidvat.categories[n].id \in kruidvat.scraped_categories

C23_ResultsOnlyWhenCompleted ==
    (/\ http.pc = "responded"
     /\ http.request = "results"
     /\ http.status \in {"queued", "running", "failed", "cancelled"})
        => /\ http.response.code = 400
           /\ http.response.products = <<>>

\* C24: CreateJob is rejected at capacity in the Aldi job API: when
\* MAX_CONCURRENT_JOBS jobs are queued or running, no step registers a new
\* job.
C24_AldiRejectsAtCapacity ==
    [][(api = "aldi" /\ ActiveCount >= MAX_CONCURRENT_JOBS)
          => \A j \in Jobs : jobs[j].status = "none" => jobs'[j].status = "none"]_vars

\* C25: a notification is emitted on every terminal transition: once the
\* handlers of a job that has a webhook URL are through and the job is
\* completed, failed or cancelled, a webhook with that final status has been
\* attempted for it (delivered or not).
C25_WebhookOnEveryTerminal ==
    \A j \in Jobs :
        (/\ jobs[j].webhook
         /\ jobs[j].status \in {"completed", "failed", "cancelled"}
         /\ task[j] = "done"
         /\ cancel_pc[j] = "idle")
        => \E w \in sent : w.job = j /\ w.status = jobs[j].status

\* C26: CancelJob on a job that is already completed, failed or cancelled
\* is answered with an error (400 by AH and Jumbo, 404 by Aldi) and leaves
\* the job's record (status, completed_at, error) as it was.
C26_CancelTerminalRejected ==
    (/\ http.pc = "responded"
     /\ http.request = "cancel"
     /\ http.status \in {"completed", "failed", "cancelled"})
    => /\ http.response.code \in {400, 404}
       /\ http.job = JobRecord(http.status)

C26_Witness ==
    /\ http.pc = "responded"
    /\ http.request = "cancel"
    /\ http.api = "ah"
    /\ http.status = "failed"
    /\ http.response.code = 400
    /\ http.job.error = "Process failed with return code"

\* C27: category discovery honours the category cap: the categories a run
\* harvests are the non-denylisted categories of the source list, in source
\* order, and when categories_limit = L is set (any L >= 0) only the first
\* L of them.
C27_DiscoveryHonoursLimit ==
    discovery.pc = "harvest" =>
        LET allowed == SelectSeq(discovery.data,
                           LAMBDA c : c \notin excluded_categories(discovery.api))
            L == discovery.categories_limit
        IN  discovery.categories =
                IF L = None THEN allowed
                ELSE SubSeq(allowed, 1, Min(L, Len(allowed)))

\* C28: every visible failure carries a terminal status and an error
\* string: a job whose status is failed has a non-empty error field, and
\* the status update after a scraper run that reported failure itself (the
\* AH run that ended with "Authentication failed" / "No categories found")
\* never shows the job as completed.
C28_FailureIsVisible ==
    [][\A j \in Jobs :
          /\ jobs'[j].status = "failed" => jobs'[j].error # ""
          /\ (/\ api = "ah"
              /\ task[j] = "spawned" /\ task'[j] # "spawned"
              /\ proc[j].report = "no_categories")
             => jobs'[j].status # "completed"]_vars

\* C29: a category is marked completed only when it was exhausted, when the
\* product limit was hit, or after an unrecoverable error: when the page
\* loop of a category was left because shutdown was requested (and the limit
\* is not reached), the step that follows does not add the category to
\* scraped_categories, nor to the checkpoint it writes.
C29_ShutdownLeavesCategoryOpen ==
    [][(/\ ah.pc = "mark"
        /\ ah.left = "shutdown"
        /\ ~AHLimitReached(ah)
        /\ ah'.pc # "mark")
       => /\ ah.categories[ah.i] \notin ah'.scraped_categories
          /\ ah_disk'.progress_file.st = "ok"
                => ah.categories[ah.i] \notin ah_disk'.progress_file.scraped_categories]_vars

\* C30: cursor advance follows the actual page content: every step of the
\* page loop that moves the cursor moves it by the number of items the page
\* requested at the old cursor returned (none for a failed or empty page),
\* never by the requested page size.
C30_CursorFollowsPage ==
    [][(/\ jumbo.pc \in {"loop", "ckpt"}
        /\ jumbo'.pc \in {"loop", "ckpt", "final"}
        /\ jumbo'.offset # jumbo.offset)
       => LET returned == IF jumbo.pc = "ckpt" THEN jumbo.page_len
                                                ELSE jumbo'.page_len
          IN  jumbo'.offset = jumbo.offset + returned]_vars

\* C31: exhaustion after three empty pages: once three consecutive pages of
\* the category have returned zero items no further page is requested, and
\* the page loop is left as exhausted (that is, not because of shutdown or
\* the limit) exactly at three consecutive empty pages.
C31_ExhaustedAfterThreeEmptyPages ==
    [][(jumbo.pc = "loop" /\ jumbo'.pc \in {"loop", "ckpt", "final"})
       => /\ jumbo.consecutive_empty_pages >= 3
                => jumbo'.consecutive_empty_pages = jumbo.consecutive_empty_pages
          /\ (jumbo' = [jumbo EXCEPT !.pc = "final"] /\ ~jumbo.shutdown_requested)
                => jumbo.consecutive_empty_pages = 3]_vars

\* C32: checkpoint cadence: while the Jumbo page loop runs, the number of
\* new items persisted since the last checkpoint (since the start of the
\* harvest when none was written yet) never exceeds the cadence of
\* save_progress, for every sequence of page sizes the source returns.
C32_CheckpointCadence ==
    (jumbo.pc = "loop" /\ jumbo.run = 1 /\ jumbo_disk.products_file.st = "ok")
    => LET checkpointed == IF jumbo_disk.progress_file.st = "ok"
                           THEN jumbo_disk.progress_file.total_scraped ELSE 0
       IN  jumbo.total_scraped - checkpointed <= JumboProgressEvery

\* C33: every request attempt is counted: when a call of the request
\* function of the Jumbo, Aldi or Plus scraper returns, the increments of
\* successful_requests and failed_requests add up to the number of HTTP
\* attempts the call made, whatever the source answered.
C33_EveryAttemptCounted ==
    (req.pc = "returned" /\ req.call.fn \in {"jumbo", "aldi", "plus"})
    => req.result.successful + req.result.failed = req.result.sent

\* C34: the adaptive batch size stays clamped: every call of
\* adapt_batch_size leaves current_batch_size in [FALLBACK_BATCH_SIZE,
\* OPTIMAL_BATCH_SIZE] = [30, 100]; a call with success rate >= 0.95 never
\* decreases it, a call with a rate < 0.8 never increases it, a call with a
\* rate in between leaves it unchanged, and one call changes it by at most 20.
C34_BatchSizeClamped ==
    [][tuning'.call = "adapt_batch_size"
       => LET old == tuning.current_batch_size
              new == tuning'.current_batch_size
              rate == tuning'.success_rate
          IN  /\ new \in FALLBACK_BATCH_SIZE..Jumbo_OPTIMAL_BATCH_SIZE
              /\ rate >= 95 => new >= old
              /\ rate < 80 => new <= old
              /\ (rate >= 80 /\ rate < 95) => new = old
              /\ new - old <= 20 /\ old - new <= 20]_vars

C34_Witness ==
    /\ tuning.call = "adapt_batch_size"
    /\ tuning.success_rate < 80
    /\ tuning.current_batch_size = FALLBACK_BATCH_SIZE

\* C35: the adaptive request interval is bounded and only increases: at
\* every step of a Jumbo run base_delay is at least its initial value
\* SAFE_REQUEST_INTERVAL, at most 2.0 seconds, and not smaller than before.
C35_BaseDelayBounded ==
    [][tuning.pc = "run"
       => /\ DelayLeq(SAFE_REQUEST_INTERVAL, tuning'.base_delay)
          /\ DelayLeq(tuning'.base_delay, MaxBaseDelay)
          /\ DelayLeq(tuning.base_delay, tuning'.base_delay)]_vars

C35_Witness ==
    /\ tuning.call = "429"
    /\ tuning.base_delay = MaxBaseDelay

\* C36: the product counter matches the store.  When a run of the Aldi
\* scraper that harvested to the end has exited (no failure, exit code 0, not
\* skipped because of the completion marker) and the store file is readable,
\* total_scraped equals the number of products in the persisted store.  This
\* covers a run resumed after a crash between a store write and the next
\* checkpoint write.
C36_CounterMatchesStore ==
    (/\ aldi.pc = "exited"
     /\ aldi.rc = 0
     /\ ~aldi.failing
     /\ ~aldi.scraping_completed
     /\ aldi_disk.products_file.st = "ok")
        => aldi.total_scraped = Len(aldi_disk.products_file.data)

\* C37: no id is checkpointed without its product.  In every state of the AH
\* scraper, hence at every point where the process may be killed or a store
\* write may fail, every external id in the scraped-id set of a readable
\* checkpoint is the id of a product in the persisted store.
C37_CheckpointedIdsArePersisted ==
    (ah.pc # "off" /\ ah_disk.progress_file.st = "ok")
        => LET stored == IF ah_disk.output_file.st = "ok"
                         THEN IdsOf("ah", ah_disk.output_file.data)
                         ELSE {}
           IN  ah_disk.progress_file.scraped_product_ids \subseteq stored

\* C38: the webhook reports the job's real status.  Whenever the Aldi job
\* service sends a completion webhook for a job, the status in the payload
\* is the job's status in the registry at that moment; in particular no
\* "completed" webhook is sent for a job the registry holds as cancelled.
C38_WebhookReportsRegistryStatus ==
    [][api = "aldi" =>
          \A w \in sent' \ sent : w.status = jobs'[w.job].status]_vars

TerminalStatuses == {"completed", "failed", "cancelled"}

\* C39: every job terminates in the registry.  Assuming the scraper
\* subprocess eventually exits, every job created by the AH or Jumbo job
\* service eventually has its background task returned and a terminal status
\* (completed, failed or cancelled), and a job whose background task has
\* returned has no entry in active_processes.
C39_EveryJobTerminates ==
    \A j \in Jobs :
        /\ (api \in {"ah", "jumbo"} /\ task[j] = "pending")
              ~> (task[j] = "done" /\ jobs[j].status \in TerminalStatuses)
        /\ []((api \in {"ah", "jumbo"} /\ task[j] = "done")
                 => j \notin active_processes)

\* A job whose process was spawned has ended: its task has returned, its
\* status is terminal and it has left active_processes.
C39_Witness ==
    \E j \in Jobs :
        /\ api \in {"ah", "jumbo"}
        /\ task[j] = "done"
        /\ jobs[j].status \in TerminalStatuses
        /\ j \notin active_processes

\* C40: startup state comes from the job's own files.  Once the Jumbo
\* scraper started through the wrapper has been constructed and patched, the
\* completion flag consulted at startup is the file the job config names,
\* and so is the progress file when one was consulted: the files the run
\* writes afterwards.
C40_StartupReadsJobFiles ==
    wrapper.pc \in {"patched", "exited"}
        => /\ wrapper.consulted.completed_flag = job_config.completed_flag
           /\ wrapper.consulted.completed_flag = wrapper.completed_flag
           /\ wrapper.consulted.progress_file
                 \in {NotConsulted, job_config.progress_file}

====
